---- MODULE Spec2Model ----
(***************************************************************************)
(* Model of the NAAF scoring / tiering engine and of its persistence code. *)
(*                                                                         *)
(* Numbers.  The Python code computes with floats.  The model uses exact   *)
(* fixed point:                                                            *)
(*   - a raw layer score or a score handed to a tier classifier is an      *)
(*     integer number of hundredths of a point (85.00 is 8500),            *)
(*   - the overall score of scoring.calculate_overall_score is an integer  *)
(*     number of ten-thousandths of a point (67.75 is 677500), because a   *)
(*     contribution is raw / 100.0 * weight.                               *)
(***************************************************************************)
EXTENDS Integers, Sequences, FiniteSets, TLC

VARIABLES
    args,       \* keyword arguments of calculate_overall_score: n -> <<>> (omitted) or <<raw>>
    scoreOut,   \* results of the two aggregates: <<>> until computed, then <<value>>
    probe,      \* a score handed to the tier classifiers (hundredths)
    classOut,   \* results of the three tier classifiers, "" until computed
    state,      \* tool_context.state of one ADK session
    disk,       \* the reports directory: run directory path -> its files
    clock,      \* the wall clock, in seconds
    ret,        \* what the last tool call of the session returned
    has_ctx,    \* whether the runtime of the session injects a tool_context
    files,      \* the storage directory of the research store: id -> content of {id}.json
    indexFile,  \* index.json of the storage directory: <<>> while absent, then <<index>>
    index,      \* store instance -> its self._index
    out,        \* what the last call on a store returned
    pc,         \* process (writer, tool call, task, generator) -> its position in its code
    local,      \* process -> its local variables
    queue,      \* the events the progress callback was called with and nobody took yet
    sent        \* the SSE events the generator has yielded

scoreVars == <<args, scoreOut, probe, classOut>>

sessVars == <<state, disk, ret, has_ctx>>

storeVars == <<files, indexFile, index, out>>

procVars == <<pc, local, queue, sent>>

vars == <<args, scoreOut, probe, classOut, state, disk, clock, ret, has_ctx,
          files, indexFile, index, out, pc, local, queue, sent>>

----------------------------------------------------------------------------
(* Helpers *)

Max(a, b) == IF a >= b THEN a ELSE b

Min(a, b) == IF a <= b THEN a ELSE b

Layers == 1..8

NoArgs == [n \in Layers |-> <<>>]

NoScore == [overall |-> <<>>, tier |-> "", fw |-> <<>>]

NoClass == [branch |-> "", fw |-> "", schema |-> ""]

----------------------------------------------------------------------------
(* scoring.py: weights and the aggregate *)

\* a slip: the last weight entered as 5
LAYER_WEIGHTS_Short == <<20, 15, 15, 10, 10, 10, 10, 5>>

\* LAYER_WEIGHTS, percentage points
LAYER_WEIGHTS == <<20, 15, 15, 10, 10, 10, 10, 10>>

\* scores = {1: layer_1_score, ...}: an omitted keyword argument defaults to 0
ScoresOf(a) == [num \in Layers |-> IF a[num] = <<>> THEN 0 ELSE a[num][1]]

\* a slip: the upper clamp alone
ClampRawUpperOnly(x) == Min(10000, x)

\* raw = max(0.0, min(100.0, scores[num]))
ClampRaw(x) == Max(0, Min(10000, x))

\* contribution = (raw / 100.0) * weight, in ten-thousandths of a point
Contribution(raw, num) == raw * LAYER_WEIGHTS[num]

\* the loop "for num in range(1, 9): ... overall += contribution", from num upwards
RECURSIVE OverallFrom(_, _, _)
OverallFrom(scores, num, acc) ==
    IF num > 8 THEN acc
    ELSE OverallFrom(scores, num + 1, acc + Contribution(ClampRaw(scores[num]), num))

\* the tier branch of calculate_overall_score, on the overall in ten-thousandths
TierBranch(ov) ==
    IF ov >= 80 * 10000 THEN "Tier 1: Hegemon"
    ELSE IF ov >= 50 * 10000 THEN "Tier 2: Strategic Specialist"
    ELSE IF ov >= 30 * 10000 THEN "Tier 3: Adopter"
    ELSE "Tier 4: Consumer"

\* overall = min(overall, 100.0)
CalcOverall(a) == Min(OverallFrom(ScoresOf(a), 1, 0), 100 * 10000)

----------------------------------------------------------------------------
(* naaf_framework.py and schemas.py: POWER_TIERS and get_tier *)

\* framework POWER_TIERS, a dict of tuples in insertion order
FW_POWER_TIERS ==
    << <<"Tier 1: Hegemon", 80, 100>>,
       <<"Tier 2: Strategic Specialist", 50, 79>>,
       <<"Tier 3: Adopter", 30, 49>>,
       <<"Tier 4: Consumer", 0, 29>> >>

\* schemas POWER_TIERS, a dict of dicts in insertion order
SCHEMA_POWER_TIERS ==
    << [name |-> "Tier 1: Hegemon", min |-> 80, max |-> 100],
       [name |-> "Tier 2: Strategic Specialist", min |-> 50, max |-> 79],
       [name |-> "Tier 3: Adopter", min |-> 30, max |-> 49],
       [name |-> "Tier 4: Consumer", min |-> 0, max |-> 29] >>

\* framework get_tier: first tuple with min_score <= score <= max_score
RECURSIVE FwGetTierFrom(_, _)
FwGetTierFrom(score, i) ==
    IF i > Len(FW_POWER_TIERS) THEN "Tier 4: Consumer"
    ELSE IF FW_POWER_TIERS[i][2] * 100 <= score /\ score <= FW_POWER_TIERS[i][3] * 100
         THEN FW_POWER_TIERS[i][1]
         ELSE FwGetTierFrom(score, i + 1)

\* a slip: the upper end of each range taken as exclusive
RECURSIVE FwGetTierOpenFrom(_, _)
FwGetTierOpenFrom(score, i) ==
    IF i > Len(FW_POWER_TIERS) THEN "Tier 4: Consumer"
    ELSE IF FW_POWER_TIERS[i][2] * 100 <= score /\ score < FW_POWER_TIERS[i][3] * 100
         THEN FW_POWER_TIERS[i][1]
         ELSE FwGetTierOpenFrom(score, i + 1)

FwGetTierOpen(score) == FwGetTierOpenFrom(score, 1)

FwGetTier(score) == FwGetTierFrom(score, 1)

\* schemas get_tier: first entry with bounds["min"] <= score <= bounds["max"]
RECURSIVE SchemaGetTierFrom(_, _)
SchemaGetTierFrom(score, i) ==
    IF i > Len(SCHEMA_POWER_TIERS) THEN "Tier 4: Consumer"
    ELSE IF SCHEMA_POWER_TIERS[i].min * 100 <= score /\ score <= SCHEMA_POWER_TIERS[i].max * 100
         THEN SCHEMA_POWER_TIERS[i].name
         ELSE SchemaGetTierFrom(score, i + 1)

\* a slip: the score brought into [0,100] before the lookup
SchemaGetTierClamped(score) == SchemaGetTierFrom(ClampRaw(score), 1)

SchemaGetTier(score) == SchemaGetTierFrom(score, 1)

\* NAAF_LAYERS keys
NAAF_LAYER_KEYS == 1..8

\* framework calculate_overall_score: sum of the scores whose key is a layer, capped at 100
RECURSIVE FwTotalFrom(_, _, _)
FwTotalFrom(layer_scores, keys, acc) ==
    IF keys = {} THEN acc
    ELSE LET k == CHOOSE x \in keys : TRUE
         IN FwTotalFrom(layer_scores, keys \ {k},
                        IF k \in NAAF_LAYER_KEYS THEN acc + layer_scores[k] ELSE acc)

FwCalcOverall(layer_scores) ==
    Min(FwTotalFrom(layer_scores, DOMAIN layer_scores, 0), 100 * 100)

\* the dict the caller builds from the layers it has a score for
LayerScoresOf(a) ==
    [k \in {n \in Layers : a[n] # <<>>} |-> a[k][1]]

----------------------------------------------------------------------------
(* Strings that the code takes apart are sequences of one-character strings *)

\* str.lower() on one character
LowerChar(c) ==
    CASE c = "J" -> "j"
      [] c = "P" -> "p"
      [] c = "S" -> "s"
      [] c = "K" -> "k"
      [] OTHER -> c

\* str.lower()
Lower(s) == [i \in 1..Len(s) |-> LowerChar(s[i])]

\* str.replace(" ", "_")
ReplaceSpaces(s) == [i \in 1..Len(s) |-> IF s[i] = " " THEN "_" ELSE s[i]]

\* str.strip(): leading and trailing blanks removed
RECURSIVE Strip(_)
Strip(s) ==
    IF s = <<>> THEN s
    ELSE IF Head(s) = " " THEN Strip(Tail(s))
    ELSE IF s[Len(s)] = " " THEN Strip(SubSeq(s, 1, Len(s) - 1))
    ELSE s

DigitChars == <<"0", "1", "2", "3", "4", "5", "6", "7", "8", "9">>

\* strftime("%Y%m%d_%H%M%S") of the clock: one text per second, here the
\* decimal digits of the second count
RECURSIVE TimeStamp(_)
TimeStamp(t) ==
    IF t < 10 THEN <<DigitChars[t + 1]>>
    ELSE TimeStamp(t \div 10) \o <<DigitChars[(t % 10) + 1]>>

----------------------------------------------------------------------------
(* scoring.py and persistence.py: one ADK session *)

LAYER_NAMES ==
    <<"Power & Electricity", "Chipset Manufacturers", "Cloud & Data Centers",
      "Model Developers", "Platform & Data", "Applications & Startups",
      "Education & Consulting", "Implementation">>

LAYER_SHORT_NAMES ==
    <<"power", "chips", "cloud", "models", "data", "apps", "talent", "adoption">>

\* persistence._LAYER_SHORT_NAMES
P_LAYER_SHORT_NAMES ==
    <<"power", "chips", "cloud", "models", "data", "apps", "talent", "adoption">>

\* the default of state.get("country", "unknown")
Unknown == <<"u", "n", "k", "n", "o", "w", "n">>

\* a run directory that was just created: layers/ is empty, no report files
EmptyDir == [layers |-> [n \in Layers |-> <<>>], final_report |-> <<>>, sources |-> <<>>]

\* round(score_0_to_100, 1), on hundredths
Round1(x) == ((x + 5) \div 10) * 10

\* round(weighted_contribution, 2): ten-thousandths to hundredths
Round2(c) == (c + 50) \div 100

\* if layer_number < 1 or layer_number > 8
LayerNumberInvalid(layer_number) == layer_number < 1 \/ layer_number > 8

\* a slip: the upper check of the score left out
ScoreInvalidLowOnly(score) == score < 0

\* if score_0_to_100 < 0 or score_0_to_100 > 100
ScoreInvalid(score) == score < 0 \/ score > 10000

\* a slip: the cached path is not looked at, every call makes its own directory
GetOrCreateReportDirFresh(country, st, dk, now) ==
    LET slug == ReplaceSpaces(Lower(Strip(country)))
        report_dir == slug \o <<"_">> \o TimeStamp(now)
        st1 == [st EXCEPT !.report_dir = <<report_dir>>]
        dk1 == IF report_dir \in DOMAIN dk THEN dk ELSE (report_dir :> EmptyDir) @@ dk
    IN [report_dir |-> report_dir, state |-> st1, disk |-> dk1]

\* persistence._get_or_create_report_dir: the path, the state and the disk after it
GetOrCreateReportDir(country, st, dk, now) ==
    LET existing == st.report_dir
        slug == ReplaceSpaces(Lower(Strip(country)))
        report_dir == IF existing # <<>> THEN existing[1]
                      ELSE slug \o <<"_">> \o TimeStamp(now)
        st1 == IF existing # <<>> THEN st ELSE [st EXCEPT !.report_dir = <<report_dir>>]
        dk1 == IF report_dir \in DOMAIN dk THEN dk ELSE (report_dir :> EmptyDir) @@ dk
    IN [report_dir |-> report_dir, state |-> st1, disk |-> dk1]

\* a slip: the layer file is written only when it does not exist yet
WriteLayerJsonKeepFirst(layer_number, layer_result, country, st, dk, now) ==
    LET resolved_country ==
            IF country # <<>> THEN country
            ELSE IF st.country # <<>> THEN st.country[1] ELSE Unknown
        got == GetOrCreateReportDir(resolved_country, st, dk, now)
    IN [state |-> got.state,
        disk |-> IF got.disk[got.report_dir].layers[layer_number] # <<>> THEN got.disk
                 ELSE [got.disk EXCEPT ![got.report_dir].layers[layer_number] = <<layer_result>>]]

\* scoring._write_layer_json: the state and the disk after it
WriteLayerJson(layer_number, layer_result, country, st, dk, now) ==
    LET resolved_country ==
            IF country # <<>> THEN country
            ELSE IF st.country # <<>> THEN st.country[1] ELSE Unknown
        got == GetOrCreateReportDir(resolved_country, st, dk, now)
    IN [state |-> got.state,
        disk |-> [got.disk EXCEPT ![got.report_dir].layers[layer_number] = <<layer_result>>]]

\* the dict score_layer builds for a layer
LayerResult(layer_number, score, justification) ==
    [layer_number |-> layer_number,
     layer_name |-> LAYER_NAMES[layer_number],
     short_name |-> LAYER_SHORT_NAMES[layer_number],
     score |-> Round1(score),
     max_score |-> 10000,
     weight_pct |-> LAYER_WEIGHTS[layer_number],
     weighted_contribution |-> Round2(score * LAYER_WEIGHTS[layer_number]),
     justification |-> justification,
     status |-> "complete"]

\* the layers whose result is in the session state
Scored(st) == {n \in Layers : st.layer_json[n] # <<>>}

\* a slip: the result is written to disk but not stored in the session state
RecordLayerNoState(layer_number, score, justification, country, tool_context) ==
    /\ ret' = [kind |-> "ok", layer_number |-> layer_number, score |-> score,
               weight |-> LAYER_WEIGHTS[layer_number],
               weighted_contribution |-> Round2(score * LAYER_WEIGHTS[layer_number]),
               justification |-> justification]
    /\ IF tool_context
       THEN LET st1 == IF country # <<>> THEN [state EXCEPT !.country = <<country>>]
                       ELSE state
                layer_result == LayerResult(layer_number, score, justification)
                wr == WriteLayerJson(layer_number, layer_result, country, st1, disk, clock)
            IN /\ state' = wr.state
               /\ disk' = wr.disk
       ELSE UNCHANGED <<state, disk>>

\* score_layer once its arguments have passed the checks: the result is
\* stored in the session state and written to disk when a tool_context is given
RecordLayer(layer_number, score, justification, country, tool_context) ==
    /\ ret' = [kind |-> "ok", layer_number |-> layer_number, score |-> score,
               weight |-> LAYER_WEIGHTS[layer_number],
               weighted_contribution |-> Round2(score * LAYER_WEIGHTS[layer_number]),
               justification |-> justification]
    /\ IF tool_context
       THEN LET st1 == IF country # <<>> THEN [state EXCEPT !.country = <<country>>]
                       ELSE state
                layer_result == LayerResult(layer_number, score, justification)
                st2 == [st1 EXCEPT !.layer_json[layer_number] = <<layer_result>>]
                wr == WriteLayerJson(layer_number, layer_result, country, st2, disk, clock)
            IN /\ state' = wr.state
               /\ disk' = wr.disk
       ELSE UNCHANGED <<state, disk>>

\* a slip: the country stored in the session state before the arguments are checked
ScoreLayerCountryFirst(layer_number, score, justification, country, tool_context) ==
    LET st0 == IF tool_context /\ country # <<>>
               THEN [state EXCEPT !.country = <<country>>] ELSE state
    IN IF LayerNumberInvalid(layer_number)
       THEN /\ ret' = [kind |-> "error_layer", got |-> layer_number]
            /\ state' = st0
            /\ UNCHANGED disk
       ELSE IF ScoreInvalid(score)
       THEN /\ ret' = [kind |-> "error_score", got |-> score]
            /\ state' = st0
            /\ UNCHANGED disk
       ELSE RecordLayer(layer_number, score, justification, country, tool_context)

\* scoring.score_layer(layer_number, score_0_to_100, justification, country, tool_context)
ScoreLayer(layer_number, score, justification, country, tool_context) ==
    IF LayerNumberInvalid(layer_number)
    THEN /\ ret' = [kind |-> "error_layer", got |-> layer_number]
         /\ UNCHANGED <<state, disk>>
    ELSE IF ScoreInvalid(score)
    THEN /\ ret' = [kind |-> "error_score", got |-> score]
         /\ UNCHANGED <<state, disk>>
    ELSE RecordLayer(layer_number, score, justification, country, tool_context)

\* a slip: the loop runs over range(1, 8) and never gets to layer 8
RECURSIVE AssembleLayersShort(_, _, _, _)
AssembleLayersShort(st, layer_files, num, layers) ==
    IF num > 7 THEN [layers |-> layers, files |-> layer_files]
    ELSE IF st.layer_json[num] = <<>> THEN AssembleLayersShort(st, layer_files, num + 1, layers)
    ELSE AssembleLayersShort(
            st,
            IF layer_files[num] = <<>>
            THEN [layer_files EXCEPT ![num] = st.layer_json[num]] ELSE layer_files,
            num + 1,
            Append(layers, <<P_LAYER_SHORT_NAMES[num], st.layer_json[num][1]>>))

\* the loop "for num in range(1, 9)" of save_final_report, from num upwards:
\* the layers dict (in insertion order) and the layer files after it
RECURSIVE AssembleLayers(_, _, _, _)
AssembleLayers(st, layer_files, num, layers) ==
    IF num > 8 THEN [layers |-> layers, files |-> layer_files]
    ELSE IF st.layer_json[num] = <<>> THEN AssembleLayers(st, layer_files, num + 1, layers)
    ELSE AssembleLayers(
            st,
            IF layer_files[num] = <<>>
            THEN [layer_files EXCEPT ![num] = st.layer_json[num]] ELSE layer_files,
            num + 1,
            Append(layers, <<P_LAYER_SHORT_NAMES[num], st.layer_json[num][1]>>))

\* a slip: seen_urls is never added to, so no url counts as seen
RECURSIVE UniqueSourcesNoSeen(_, _, _)
UniqueSourcesNoSeen(collected, seen_urls, unique_sources) ==
    IF collected = <<>> THEN unique_sources
    ELSE LET src == Head(collected)
         IN IF src.url # "" /\ src.url \notin seen_urls
            THEN UniqueSourcesNoSeen(Tail(collected), seen_urls, Append(unique_sources, src))
            ELSE UniqueSourcesNoSeen(Tail(collected), seen_urls, unique_sources)

\* youcom_search._track_sources: the collected sources after the hits of one
\* search; a hit without url is not collected
TrackSources(collected, hits) ==
    LET has_url(hit) == hit.url # ""
    IN collected \o SelectSeq(hits, has_url)

\* the loop over collected_sources: first occurrence of every non-empty url
RECURSIVE UniqueSources(_, _, _)
UniqueSources(collected, seen_urls, unique_sources) ==
    IF collected = <<>> THEN unique_sources
    ELSE LET src == Head(collected)
         IN IF src.url # "" /\ src.url \notin seen_urls
            THEN UniqueSources(Tail(collected), seen_urls \cup {src.url},
                               Append(unique_sources, src))
            ELSE UniqueSources(Tail(collected), seen_urls, unique_sources)

\* persistence.save_final_report(country, overall_score, tier, executive_summary, tool_context)
SaveFinalReport(country, overall_score, tier, executive_summary) ==
    LET got == GetOrCreateReportDir(country, state, disk, clock)
        dir == got.disk[got.report_dir]
        asm == AssembleLayers(got.state, dir.layers, 1, <<>>)
        unique_sources == UniqueSources(got.state.collected_sources, {}, <<>>)
        source_urls == [i \in 1..Len(unique_sources) |-> unique_sources[i].url]
        final_report ==
            [country |-> country,
             years |-> <<2023, 2024, 2025>>,
             overall_score |-> overall_score,
             tier |-> tier,
             executive_summary |-> executive_summary,
             layers |-> asm.layers,
             sources |-> source_urls,
             generated_at |-> clock]
    IN /\ state' = got.state
       /\ disk' = [got.disk EXCEPT ![got.report_dir] =
                      [layers |-> asm.files,
                       final_report |-> <<final_report>>,
                       sources |-> <<unique_sources>>]]
       /\ ret' = [kind |-> "saved", folder |-> got.report_dir,
                  layers |-> Len(asm.layers), sources |-> Len(unique_sources)]

----------------------------------------------------------------------------
(* research_store.py: ResearchStore, and NAAFAgent.save_result which calls it *)

\* the index _load_index builds when there is no index.json
EmptyIndex ==
    [version |-> "1.0", runs |-> <<>>, by_country |-> <<>>, latest_by_country |-> <<>>]

\* ResearchStore._load_index
LoadIndex(index_file) == IF index_file # <<>> THEN index_file[1] ELSE EmptyIndex

\* one store, the process-wide one of get_store(), constructed on an empty directory
StoreIdle ==
    /\ files = <<>>
    /\ indexFile = <<>>
    /\ index = [s \in {1} |-> LoadIndex(<<>>)]
    /\ out = [op |-> "none"]

\* ResearchStore._generate_id
GenerateId(country, now) ==
    ReplaceSpaces(Lower(country)) \o <<"_">> \o TimeStamp(now)

\* the id NAAFAgent.save_result gives the run: f"naaf_{slug}_{timestamp}"
SaveResultId(country, now) ==
    <<"n", "a", "a", "f", "_">> \o ReplaceSpaces(Lower(country)) \o <<"_">> \o TimeStamp(now)

\* StoredResearch.__post_init__; "" and None are <<>>
PostInit(r) ==
    LET r1 == IF r.generated_at = <<>> /\ r.created_at # <<>>
              THEN [r EXCEPT !.generated_at = r.created_at] ELSE r
    IN IF r1.created_at = <<>> /\ r1.generated_at # <<>>
       THEN [r1 EXCEPT !.created_at = r1.generated_at] ELSE r1

\* the fields of StoredResearch, in the order of the dataclass
StoredFields ==
    <<"id", "country", "country_code", "year", "overall_score", "tier", "layers",
      "sources", "news_snapshot", "framework_version", "generated_at",
      "research_duration_seconds", "raw_response", "created_at">>

\* a slip: raw_response is left out of what is written
AsDictNoRaw(r) ==
    LET kept(k) == k # "raw_response"
        all == [i \in 1..Len(StoredFields) |-> <<StoredFields[i], r[StoredFields[i]]>>]
        keeps(member) == kept(member[1])
    IN SelectSeq(all, keeps)

\* json.dump(asdict(research)): the JSON object of {id}.json, a list of
\* members (name, value) in field order
AsDict(r) == [i \in 1..Len(StoredFields) |-> <<StoredFields[i], r[StoredFields[i]]>>]

\* data.get(name, default) on a JSON object
Member(data, name, default) ==
    IF \E i \in 1..Len(data) : data[i][1] = name
    THEN data[CHOOSE i \in 1..Len(data) : data[i][1] = name][2]
    ELSE default

\* StoredResearch(**json.load(f)): the record built from the members of a
\* JSON object, a field that has a default taking it when its member is missing
FromJson(data) ==
    PostInit(
        [id |-> Member(data, "id", <<>>),
         country |-> Member(data, "country", <<>>),
         country_code |-> Member(data, "country_code", ""),
         year |-> Member(data, "year", 0),
         overall_score |-> Member(data, "overall_score", 0),
         tier |-> Member(data, "tier", ""),
         layers |-> Member(data, "layers", <<>>),
         sources |-> Member(data, "sources", <<>>),
         news_snapshot |-> Member(data, "news_snapshot", <<>>),
         framework_version |-> Member(data, "framework_version", "1.0"),
         generated_at |-> Member(data, "generated_at", <<>>),
         research_duration_seconds |-> Member(data, "research_duration_seconds", 0),
         raw_response |-> Member(data, "raw_response", ""),
         created_at |-> Member(data, "created_at", <<>>)])

\* the summary of a run in the index
RunMeta(id, country, year, overall_score, tier, generated_at) ==
    [id |-> id, country |-> country, year |-> year, overall_score |-> overall_score,
     tier |-> tier, generated_at |-> generated_at]

\* a slip: the summary and the id inserted at the front
AddRunFront(idx, run_meta, country_lower) ==
    LET by0 == IF country_lower \in DOMAIN idx.by_country THEN idx.by_country
               ELSE (country_lower :> <<>>) @@ idx.by_country
    IN [idx EXCEPT
          !.runs = <<run_meta>> \o idx.runs,
          !.by_country = [by0 EXCEPT ![country_lower] = <<run_meta.id>> \o @],
          !.latest_by_country = (country_lower :> run_meta.id) @@ idx.latest_by_country]

\* the index update of save and of save_research
AddRun(idx, run_meta, country_lower) ==
    LET by0 == IF country_lower \in DOMAIN idx.by_country THEN idx.by_country
               ELSE (country_lower :> <<>>) @@ idx.by_country
    IN [idx EXCEPT
          !.runs = Append(idx.runs, run_meta),
          !.by_country = [by0 EXCEPT ![country_lower] = Append(@, run_meta.id)],
          !.latest_by_country = (country_lower :> run_meta.id) @@ idx.latest_by_country]

\* ResearchStore.save_research on store s; the other arguments are fixed
SaveResearch(s, country, year, overall_score, tier) ==
    LET research_id == GenerateId(country, clock)
        research == PostInit(
            [id |-> research_id, country |-> country, country_code |-> "",
             year |-> year, overall_score |-> overall_score, tier |-> tier,
             layers |-> <<>>, sources |-> <<>>, news_snapshot |-> <<>>,
             framework_version |-> "1.0", generated_at |-> <<clock>>,
             research_duration_seconds |-> 0, raw_response |-> "",
             created_at |-> <<>>])
        run_meta == RunMeta(research_id, country, year, overall_score, tier, <<clock>>)
        idx == AddRun(index[s], run_meta, Lower(country))
    IN /\ files' = (research_id :> AsDict(research)) @@ files
       /\ index' = [index EXCEPT ![s] = idx]
       /\ indexFile' = <<idx>>
       /\ out' = [op |-> "save_research", id |-> research_id, research |-> research]

\* ResearchStore.save on store s
Save(s, research) ==
    LET run_meta == RunMeta(research.id, research.country, research.year,
                            research.overall_score, research.tier,
                            IF research.generated_at # <<>> THEN research.generated_at
                            ELSE research.created_at)
        idx == AddRun(index[s], run_meta, Lower(research.country))
    IN /\ files' = (research.id :> AsDict(research)) @@ files
       /\ index' = [index EXCEPT ![s] = idx]
       /\ indexFile' = <<idx>>
       /\ out' = [op |-> "save", id |-> research.id, research |-> research]

\* the StoredResearch NAAFAgent.save_result builds from result at time now
StoredOf(result, now) ==
    PostInit(
        [id |-> SaveResultId(result.country, now), country |-> result.country,
         country_code |-> "", year |-> result.year,
         overall_score |-> result.overall_score, tier |-> result.tier,
         layers |-> result.layer_results, sources |-> result.sources,
         news_snapshot |-> result.news_articles, framework_version |-> "1.0",
         generated_at |-> result.generated_at,
         research_duration_seconds |-> result.research_duration_seconds,
         raw_response |-> result.raw_response, created_at |-> result.generated_at])

\* NAAFAgent.save_result(result), on the store get_store() returns
SaveResult(s, result) == Save(s, StoredOf(result, clock))

\* the first half of ResearchStore.save on store s: {id}.json is written
SaveFile(s, research) ==
    files' = (research.id :> AsDict(research)) @@ files

\* a slip: the index is loaded from index.json again before the run is added
SaveIndexReloaded(s, research) ==
    LET run_meta == RunMeta(research.id, research.country, research.year,
                            research.overall_score, research.tier,
                            IF research.generated_at # <<>> THEN research.generated_at
                            ELSE research.created_at)
        idx == AddRun(LoadIndex(indexFile), run_meta, Lower(research.country))
    IN /\ index' = [index EXCEPT ![s] = idx]
       /\ indexFile' = <<idx>>
       /\ out' = [op |-> "save", id |-> research.id, research |-> research]

\* the second half of ResearchStore.save on store s: the run is added to
\* self._index and index.json is written from it
SaveIndex(s, research) ==
    LET run_meta == RunMeta(research.id, research.country, research.year,
                            research.overall_score, research.tier,
                            IF research.generated_at # <<>> THEN research.generated_at
                            ELSE research.created_at)
        idx == AddRun(index[s], run_meta, Lower(research.country))
    IN /\ index' = [index EXCEPT ![s] = idx]
       /\ indexFile' = <<idx>>
       /\ out' = [op |-> "save", id |-> research.id, research |-> research]

\* list.remove(x): the first occurrence goes
RECURSIVE RemoveFirst(_, _)
RemoveFirst(ids, x) ==
    IF ids = <<>> THEN ids
    ELSE IF Head(ids) = x THEN Tail(ids)
    ELSE <<Head(ids)>> \o RemoveFirst(Tail(ids), x)

\* "research_id in ids"
InList(ids, x) == \E i \in 1..Len(ids) : ids[i] = x

\* a slip: latest_by_country left alone by the delete
LatestAfterDeleteStale(idx, research_id) == idx.latest_by_country

\* latest_by_country after the loop of delete_research over by_country
LatestAfterDelete(idx, research_id) ==
    LET hit(c) == /\ InList(idx.by_country[c], research_id)
                  /\ c \in DOMAIN idx.latest_by_country
                  /\ idx.latest_by_country[c] = research_id
        left(c) == RemoveFirst(idx.by_country[c], research_id)
        dropped == {c \in DOMAIN idx.by_country : hit(c) /\ left(c) = <<>>}
    IN [c \in DOMAIN idx.latest_by_country \ dropped |->
            IF c \in DOMAIN idx.by_country /\ hit(c)
            THEN left(c)[Len(left(c))]
            ELSE idx.latest_by_country[c]]

\* ResearchStore.delete_research on store s
DeleteResearch(s, research_id) ==
    IF research_id \notin DOMAIN files
    THEN /\ out' = [op |-> "delete_research", id |-> research_id, result |-> FALSE]
         /\ UNCHANGED <<files, indexFile, index>>
    ELSE LET keep(r) == r.id # research_id
             idx == [index[s] EXCEPT
                        !.runs = SelectSeq(index[s].runs, keep),
                        !.by_country = [c \in DOMAIN index[s].by_country |->
                                           RemoveFirst(index[s].by_country[c], research_id)],
                        !.latest_by_country = LatestAfterDelete(index[s], research_id)]
         IN /\ index' = [index EXCEPT ![s] = idx]
            /\ indexFile' = <<idx>>
            /\ files' = [i \in DOMAIN files \ {research_id} |-> files[i]]
            /\ out' = [op |-> "delete_research", id |-> research_id, result |-> TRUE]

\* a slip: the id is looked up in the index before the file is read
GetResearchIndexed(fs, research_id) ==
    IF \A i \in 1..Len(index[1].runs) : index[1].runs[i].id # research_id THEN <<>>
    ELSE IF research_id \notin DOMAIN fs THEN <<>>
    ELSE <<FromJson(fs[research_id])>>

\* ResearchStore.get_research, and get which is its alias: None is <<>>
GetResearch(fs, research_id) ==
    IF research_id \notin DOMAIN fs THEN <<>>
    ELSE <<FromJson(fs[research_id])>>

\* the place of a summary in the descending order: generated_at is an ISO
\* text, whose order as text is the order of the seconds it stands for
SortKey(run_meta) == IF run_meta.generated_at = <<>> THEN -1 ELSE run_meta.generated_at[1]

\* one summary put into a list that is sorted: sorted() is stable, so it goes
\* behind the summaries of the same key
RECURSIVE InsertDesc(_, _)
InsertDesc(sorted, run_meta) ==
    IF sorted = <<>> THEN <<run_meta>>
    ELSE IF SortKey(Head(sorted)) >= SortKey(run_meta)
    THEN <<Head(sorted)>> \o InsertDesc(Tail(sorted), run_meta)
    ELSE <<run_meta>> \o sorted

\* sorted(runs, key=generated_at, reverse=True)
RECURSIVE SortedDesc(_)
SortedDesc(runs) ==
    IF runs = <<>> THEN <<>>
    ELSE InsertDesc(SortedDesc(SubSeq(runs, 1, Len(runs) - 1)), runs[Len(runs)])

\* the slice xs[:limit]
FirstN(xs, limit) ==
    IF limit >= 0 THEN SubSeq(xs, 1, Min(limit, Len(xs)))
    ELSE SubSeq(xs, 1, Max(Len(xs) + limit, 0))

\* the slice xs[-limit:]; -0 is 0, so xs[-0:] is the whole list
LastN(xs, limit) ==
    IF limit > 0 THEN SubSeq(xs, Len(xs) - Min(limit, Len(xs)) + 1, Len(xs))
    ELSE IF limit = 0 THEN xs
    ELSE SubSeq(xs, Min(-limit, Len(xs)) + 1, Len(xs))

\* ResearchStore.list_recent_runs
ListRecentRuns(idx, limit) == FirstN(SortedDesc(idx.runs), limit)

\* the loop of list: the records of the ids that get_research finds
RECURSIVE Loaded(_, _)
Loaded(fs, ids) ==
    IF ids = <<>> THEN <<>>
    ELSE GetResearch(fs, Head(ids)) \o Loaded(fs, Tail(ids))

\* a slip: the country is looked up as it was given
ListExactCase(idx, fs, country, limit) ==
    IF country # <<>>
    THEN Loaded(fs, LastN(IF country \in DOMAIN idx.by_country
                          THEN idx.by_country[country] ELSE <<>>, limit))
    ELSE LET recent == ListRecentRuns(idx, limit)
         IN Loaded(fs, [i \in 1..Len(recent) |-> recent[i].id])

\* ResearchStore.list(country, limit); no country is <<>>
List(idx, fs, country, limit) ==
    IF country # <<>>
    THEN Loaded(fs, LastN(IF Lower(country) \in DOMAIN idx.by_country
                          THEN idx.by_country[Lower(country)] ELSE <<>>, limit))
    ELSE LET recent == ListRecentRuns(idx, limit)
         IN Loaded(fs, [i \in 1..Len(recent) |-> recent[i].id])

\* ResearchStore.has_research
HasResearch(idx, country) == Lower(country) \in DOMAIN idx.latest_by_country

\* ResearchStore.get_latest_for_country
GetLatestForCountry(idx, fs, country) ==
    IF Lower(country) \notin DOMAIN idx.latest_by_country THEN <<>>
    ELSE GetResearch(fs, idx.latest_by_country[Lower(country)])

----------------------------------------------------------------------------
(* Specification of a session: tool calls one after the other *)

MaxScoredLayers == 1

MaxClock == 1

\* "", "Jp", "S K"
CountryArgs == {<<>>, <<"J", "p">>, <<"S", " ", "K">>}

LayerNumberArgs == 0..9

ScoreArgs == {-1, 0, 10000, 10001}

JustificationArgs == {"j1"}

\* what the search tools have collected when the session is looked at
SourceLists ==
    {<<[url |-> "a", title |-> "t1"], [url |-> "b", title |-> "t2"],
       [url |-> "a", title |-> "t3"]>>}

\* a fresh session state
EmptyState(collected) ==
    [country |-> <<>>, report_dir |-> <<>>,
     layer_json |-> [n \in Layers |-> <<>>], collected_sources |-> collected]

\* no process is running and no stream is open
ProcIdle ==
    /\ pc = <<>>
    /\ local = <<>>
    /\ queue = <<>>
    /\ sent = <<>>

\* no session is running
SessIdle ==
    /\ state = EmptyState(<<>>)
    /\ disk = <<>>
    /\ ret = [kind |-> "none"]
    /\ has_ctx = TRUE

\* no aggregate and no classifier is being evaluated
ScoreIdle ==
    /\ args = NoArgs
    /\ scoreOut = NoScore
    /\ probe = 0
    /\ classOut = NoClass

InitSession ==
    /\ ProcIdle
    /\ ScoreIdle
    /\ StoreIdle
    /\ state \in {EmptyState(c) : c \in SourceLists}
    /\ disk = <<>>
    /\ clock = 0
    /\ ret = [kind |-> "none"]
    /\ has_ctx \in BOOLEAN

\* the session lasts until its report is saved
SessionOpen == \A d \in DOMAIN disk : disk[d].final_report = <<>>

\* the agent calls score_layer
CallScoreLayer ==
    \E layer_number \in LayerNumberArgs, score \in ScoreArgs,
       justification \in JustificationArgs, country \in CountryArgs :
        /\ SessionOpen
        /\ (has_ctx /\ layer_number \in Layers) =>
                Cardinality(Scored(state) \cup {layer_number}) <= MaxScoredLayers
        /\ ScoreLayer(layer_number, score, justification, country, has_ctx)
        /\ UNCHANGED <<clock, has_ctx, scoreVars, procVars, storeVars>>

\* the agent calls save_final_report, the last call of a session; the tool
\* needs its tool_context
CallSaveFinalReport ==
    \E country \in CountryArgs :
        /\ SessionOpen
        /\ has_ctx
        /\ SaveFinalReport(country, 6775, "Tier 2: Strategic Specialist", "summary")
        /\ UNCHANGED <<clock, has_ctx, scoreVars, procVars, storeVars>>

\* a second passes
Tick ==
    /\ clock < MaxClock
    /\ clock' = clock + 1
    /\ UNCHANGED <<sessVars, scoreVars, procVars, storeVars>>

NextSession == CallScoreLayer \/ CallSaveFinalReport \/ Tick

SpecSession == InitSession /\ [][NextSession]_vars

----------------------------------------------------------------------------
(* Specification of a report: searches and scores in any order, then the report *)

MaxSources == 3

MaxReportLayers == 2

\* the hits a search can come back with: two pages of a, one of b, one of A,
\* one without url
Hits ==
    {[url |-> "a", title |-> "t1"], [url |-> "a", title |-> "t2"],
     [url |-> "b", title |-> "t1"], [url |-> "A", title |-> "t1"],
     [url |-> "", title |-> "t1"]}

InitReport ==
    /\ ProcIdle
    /\ ScoreIdle
    /\ StoreIdle
    /\ state = EmptyState(<<>>)
    /\ disk = <<>>
    /\ clock = 0
    /\ ret = [kind |-> "none"]
    /\ has_ctx = TRUE

\* a search tool has run and its hits are tracked
CallTrackSources ==
    \E hit \in Hits :
        /\ SessionOpen
        /\ Len(state.collected_sources) < MaxSources
        /\ state' = [state EXCEPT
                        !.collected_sources = TrackSources(state.collected_sources, <<hit>>)]
        /\ UNCHANGED <<disk, ret, has_ctx, clock, scoreVars, procVars, storeVars>>

\* a layer agent scores its layer; the layers come in any order
CallScoreAnyLayer ==
    \E layer_number \in Layers :
        /\ SessionOpen
        /\ Cardinality(Scored(state) \cup {layer_number}) <= MaxReportLayers
        /\ ScoreLayer(layer_number, 5000, "j1", <<"J", "p">>, has_ctx)
        /\ UNCHANGED <<clock, has_ctx, scoreVars, procVars, storeVars>>

NextReport == CallTrackSources \/ CallScoreAnyLayer \/ CallSaveFinalReport

SpecReport == InitReport /\ [][NextReport]_vars

----------------------------------------------------------------------------
(* Specification of one store: saves and deletes one after the other *)

MaxRuns == 3

\* "Jp", "jp", "S K"
StoreCountries == {<<"J", "p">>, <<"j", "p">>, <<"S", " ", "K">>}

\* the ids delete_research is called with: those of the files of the
\* directory, and one more, which may have no file
DeleteIds == DOMAIN files \cup {<<"j", "p", "_", "0">>}

\* the result of an assessment that ended at generated_at
AssessmentResult(country, generated_at) ==
    [country |-> country, year |-> 2024, overall_score |-> 6775,
     tier |-> "Tier 2: Strategic Specialist", layer_results |-> <<>>,
     sources |-> <<>>, news_articles |-> <<>>, generated_at |-> <<generated_at>>,
     research_duration_seconds |-> 0, raw_response |-> "raw"]

\* the number of ids the by_country lists of an index hold
RECURSIVE IdCount(_, _)
IdCount(by_country, keys) ==
    IF keys = {} THEN 0
    ELSE LET c == CHOOSE x \in keys : TRUE
         IN Len(by_country[c]) + IdCount(by_country, keys \ {c})

\* the index of store s has room for one more run
HasRoom(s) ==
    /\ Len(index[s].runs) < MaxRuns
    /\ IdCount(index[s].by_country, DOMAIN index[s].by_country) < MaxRuns

InitStore ==
    /\ ProcIdle
    /\ ScoreIdle
    /\ SessIdle
    /\ StoreIdle
    /\ clock = 0

\* save_research is called
CallSaveResearch ==
    \E country \in StoreCountries :
        /\ HasRoom(1)
        /\ SaveResearch(1, country, 2024, 6775, "Tier 2: Strategic Specialist")
        /\ UNCHANGED <<clock, scoreVars, procVars, sessVars>>

\* an assessment has just ended and its result is saved
CallSaveResult ==
    \E country \in StoreCountries :
        /\ HasRoom(1)
        /\ SaveResult(1, AssessmentResult(country, clock))
        /\ UNCHANGED <<clock, scoreVars, procVars, sessVars>>

\* delete_research is called
CallDeleteResearch ==
    \E research_id \in DeleteIds :
        /\ DeleteResearch(1, research_id)
        /\ UNCHANGED <<clock, scoreVars, procVars, sessVars>>

NextStore == CallSaveResearch \/ CallSaveResult \/ CallDeleteResearch \/ Tick

SpecStore == InitStore /\ [][NextStore]_vars

----------------------------------------------------------------------------
(* Specification of the queries: a store is filled, then it is asked once *)

MaxListed == 2

\* the countries asked for: "jp", "S K" and "JP", a casing no run is saved under
QueryCountries == {<<"j", "p">>, <<"S", " ", "K">>, <<"J", "P">>}

\* the country the other process saves a run of: "S K"
ElsewhereCountries == {<<"S", " ", "K">>}

\* the country assessments are saved of: "jp"
ResultCountries == {<<"j", "p">>}

\* list_runs of the API: limit: int = Query(default=20, le=100)
LimitAccepted(limit) == limit <= 100

\* the limits list is called with
LimitArgs == {limit \in {0, 1, 2} : LimitAccepted(limit)}

\* the ids get is called with: those of the files, those of the index, and
\* one more
GetIds ==
    DOMAIN files
    \cup {index[1].runs[i].id : i \in 1..Len(index[1].runs)}
    \cup {<<"j", "p", "_", "0">>}

QueryOps == {"get", "list", "has_research", "get_latest_for_country"}

\* the store has been asked
Answered == out.op \in QueryOps

InitQuery == InitStore

\* save_research is called on the store
QuerySaveResearch ==
    /\ ~Answered
    /\ Len(index[1].runs) < MaxListed
    /\ CallSaveResearch

\* the result of an assessment that ended at generated_at is saved now
QuerySaveResult ==
    \E country \in ResultCountries, generated_at \in 0..clock :
        /\ ~Answered
        /\ Len(index[1].runs) < MaxListed
        /\ HasRoom(1)
        /\ SaveResult(1, AssessmentResult(country, generated_at))
        /\ UNCHANGED <<clock, scoreVars, procVars, sessVars>>

\* another process opens a store on the directory and calls save_research:
\* its store loads index.json, and the store of this process is not told
SaveElsewhere ==
    \E country \in ElsewhereCountries :
        LET research_id == GenerateId(country, clock)
            research == PostInit(
                [id |-> research_id, country |-> country, country_code |-> "",
                 year |-> 2024, overall_score |-> 6775,
                 tier |-> "Tier 2: Strategic Specialist",
                 layers |-> <<>>, sources |-> <<>>, news_snapshot |-> <<>>,
                 framework_version |-> "1.0", generated_at |-> <<clock>>,
                 research_duration_seconds |-> 0, raw_response |-> "",
                 created_at |-> <<>>])
            run_meta == RunMeta(research_id, country, 2024, 6775,
                                "Tier 2: Strategic Specialist", <<clock>>)
            idx == AddRun(LoadIndex(indexFile), run_meta, Lower(country))
        IN /\ ~Answered
           /\ Len(LoadIndex(indexFile).runs) < MaxListed
           /\ Cardinality(DOMAIN files) < MaxListed
           /\ files' = (research_id :> AsDict(research)) @@ files
           /\ indexFile' = <<idx>>
           /\ UNCHANGED <<index, out, clock, scoreVars, procVars, sessVars>>

QueryTick == ~Answered /\ Tick

\* get(research_id) is called
CallGet ==
    \E research_id \in GetIds :
        /\ ~Answered
        /\ out' = [op |-> "get", id |-> research_id,
                   result |-> GetResearch(files, research_id)]
        /\ UNCHANGED <<files, indexFile, index, clock, scoreVars, procVars, sessVars>>

\* list(country, limit) is called, with a country or without
CallList ==
    \E country \in QueryCountries \cup {<<>>}, limit \in LimitArgs :
        /\ ~Answered
        /\ out' = [op |-> "list", country |-> country, limit |-> limit,
                   result |-> List(index[1], files, country, limit)]
        /\ UNCHANGED <<files, indexFile, index, clock, scoreVars, procVars, sessVars>>

\* has_research(country) is called
CallHasResearch ==
    \E country \in QueryCountries :
        /\ ~Answered
        /\ out' = [op |-> "has_research", country |-> country,
                   result |-> HasResearch(index[1], country)]
        /\ UNCHANGED <<files, indexFile, index, clock, scoreVars, procVars, sessVars>>

\* get_latest_for_country(country) is called
CallGetLatestForCountry ==
    \E country \in QueryCountries :
        /\ ~Answered
        /\ out' = [op |-> "get_latest_for_country", country |-> country,
                   result |-> GetLatestForCountry(index[1], files, country)]
        /\ UNCHANGED <<files, indexFile, index, clock, scoreVars, procVars, sessVars>>

NextQuery ==
    \/ QuerySaveResearch
    \/ QuerySaveResult
    \/ SaveElsewhere
    \/ QueryTick
    \/ CallGet
    \/ CallList
    \/ CallHasResearch
    \/ CallGetLatestForCountry

SpecQuery == InitQuery /\ [][NextQuery]_vars

----------------------------------------------------------------------------
(* Inputs of the aggregate *)

\* the end-to-end scenario: raw scores 90, 85, 80, 70, 60, 50, 40, 30
ExampleRaw == <<9000, 8500, 8000, 7000, 6000, 5000, 4000, 3000>>

\* an out-of-range raw score per layer: below 0 on odd layers, above 100 on even ones
OutOfRangeRaw(n) == IF n % 2 = 1 THEN -50 ELSE 15000

RawChoices(n) == {<<>>, <<ExampleRaw[n]>>, <<10000>>, <<OutOfRangeRaw(n)>>}

UniformRaw == {0, 1, 2950, 3000, 4999, 5025, 7999, 8000, 9999, 10000, -1, 10001}

ArgSets ==
    {<<a1, a2, a3, a4, a5, a6, a7, a8>> :
        a1 \in RawChoices(1), a2 \in RawChoices(2), a3 \in RawChoices(3),
        a4 \in RawChoices(4), a5 \in RawChoices(5), a6 \in RawChoices(6),
        a7 \in RawChoices(7), a8 \in RawChoices(8)}
    \cup {[n \in Layers |-> <<v>>] : v \in UniformRaw}

----------------------------------------------------------------------------
(* Specification of the aggregate: the inputs are drawn, the functions applied *)

InitAggregate ==
    /\ ProcIdle
    /\ args \in ArgSets
    /\ scoreOut = NoScore
    /\ probe = 0
    /\ classOut = NoClass
    /\ clock = 0
    /\ SessIdle
    /\ StoreIdle

\* scoring.calculate_overall_score(**args)
CalculateOverallScore ==
    /\ scoreOut.overall = <<>>
    /\ LET ov == CalcOverall(args)
       IN scoreOut' = [scoreOut EXCEPT !.overall = <<ov>>, !.tier = TierBranch(ov)]
    /\ UNCHANGED <<args, probe, classOut, clock, sessVars, storeVars, procVars>>

\* naaf_framework.calculate_overall_score(layer_scores)
FwCalculateOverallScore ==
    /\ scoreOut.fw = <<>>
    /\ scoreOut' = [scoreOut EXCEPT !.fw = <<FwCalcOverall(LayerScoresOf(args))>>]
    /\ UNCHANGED <<args, probe, classOut, clock, sessVars, storeVars, procVars>>

NextAggregate == CalculateOverallScore \/ FwCalculateOverallScore

SpecAggregate == InitAggregate /\ [][NextAggregate]_vars

----------------------------------------------------------------------------
(* Specification of the tier classifiers: a score is drawn, each classifier applied *)

\* every half point from -2 to 102, and the hundredths next to the range ends
ProbeSet ==
    {50 * v : v \in -4..204}
    \cup {2901, 2950, 2999, 3001, 4901, 4999, 5001, 7901, 7999, 8001, 9999, 10001}

InitClassify ==
    /\ ProcIdle
    /\ probe \in ProbeSet
    /\ classOut = NoClass
    /\ args = NoArgs
    /\ scoreOut = NoScore
    /\ clock = 0
    /\ SessIdle
    /\ StoreIdle

\* the tier branch of scoring.calculate_overall_score on an overall equal to probe
ClassifyBranch ==
    /\ classOut.branch = ""
    /\ classOut' = [classOut EXCEPT !.branch = TierBranch(probe * 100)]
    /\ UNCHANGED <<args, scoreOut, probe, clock, sessVars, storeVars, procVars>>

\* naaf_framework.get_tier(probe)
ClassifyFw ==
    /\ classOut.fw = ""
    /\ classOut' = [classOut EXCEPT !.fw = FwGetTier(probe)]
    /\ UNCHANGED <<args, scoreOut, probe, clock, sessVars, storeVars, procVars>>

\* schemas.get_tier(probe)
ClassifySchema ==
    /\ classOut.schema = ""
    /\ classOut' = [classOut EXCEPT !.schema = SchemaGetTier(probe)]
    /\ UNCHANGED <<args, scoreOut, probe, clock, sessVars, storeVars, procVars>>

NextClassify == ClassifyBranch \/ ClassifyFw \/ ClassifySchema

SpecClassify == InitClassify /\ [][NextClassify]_vars

----------------------------------------------------------------------------
(* Claims about the aggregate and the classifiers *)

\* the raw score the claim reads for layer n: the argument, 0 when omitted
RawGiven(n) == IF args[n] = <<>> THEN 0 ELSE args[n][1]

\* clamp(raw, 0, 100) as the claim states it
Clamped(x) == IF x < 0 THEN 0 ELSE IF x > 10000 THEN 10000 ELSE x

\* C1: calculate_overall_score returns min(100, sum over the layers of
\* clamp(raw_n, 0, 100) * weight_n / 100) with weights 20,15,15,10,10,10,10,10,
\* an omitted layer counting as 0; raw scores 90,85,80,70,60,50,40,30 give
\* 67.75 and "Tier 2: Strategic Specialist".
C1_AggregateFormula ==
    scoreOut.overall # <<>> =>
        /\ scoreOut.overall[1] =
             Min(1000000,
                 20 * Clamped(RawGiven(1)) + 15 * Clamped(RawGiven(2))
                 + 15 * Clamped(RawGiven(3)) + 10 * Clamped(RawGiven(4))
                 + 10 * Clamped(RawGiven(5)) + 10 * Clamped(RawGiven(6))
                 + 10 * Clamped(RawGiven(7)) + 10 * Clamped(RawGiven(8)))
        /\ (args = [n \in Layers |-> <<ExampleRaw[n]>>] =>
                /\ scoreOut.overall = <<677500>>
                /\ scoreOut.tier = "Tier 2: Strategic Specialist")

C1_Witness ==
    /\ args = [n \in Layers |-> <<ExampleRaw[n]>>]
    /\ scoreOut.overall = <<677500>>
    /\ scoreOut.tier = "Tier 2: Strategic Specialist"

\* every raw score that was given lies in [0,100]
AllRawInRange == \A n \in Layers : args[n] = <<>> \/ (0 <= args[n][1] /\ args[n][1] <= 10000)

\* C2: for raw scores in [0,100] the overall score of either aggregate lies in
\* [0,100], and it is exactly 100 when all eight raw scores are 100.
C2_OverallInRange ==
    AllRawInRange =>
        /\ scoreOut.overall # <<>> =>
              /\ 0 <= scoreOut.overall[1] /\ scoreOut.overall[1] <= 1000000
              /\ (\A n \in Layers : args[n] = <<10000>>) => scoreOut.overall[1] = 1000000
        /\ scoreOut.fw # <<>> =>
              /\ 0 <= scoreOut.fw[1] /\ scoreOut.fw[1] <= 10000
              /\ (\A n \in Layers : args[n] = <<10000>>) => scoreOut.fw[1] = 10000

C2_Witness ==
    /\ \A n \in Layers : args[n] = <<10000>>
    /\ scoreOut.overall = <<1000000>>
    /\ scoreOut.fw = <<10000>>

\* the tier the boundary table gives to an integer boundary score
BoundaryTier(b) ==
    IF b \in {0, 29} THEN "Tier 4: Consumer"
    ELSE IF b \in {30, 49} THEN "Tier 3: Adopter"
    ELSE IF b \in {50, 79} THEN "Tier 2: Strategic Specialist"
    ELSE "Tier 1: Hegemon"

\* C3: at the boundary scores 0, 29, 30, 49, 50, 79, 80, 100 every tier
\* classifier returns the tier of the boundary table.
C3_BoundaryValues ==
    \A b \in {0, 29, 30, 49, 50, 79, 80, 100} :
        probe = 100 * b =>
            /\ classOut.branch \in {"", BoundaryTier(b)}
            /\ classOut.fw \in {"", BoundaryTier(b)}
            /\ classOut.schema \in {"", BoundaryTier(b)}

C3_Witness ==
    /\ probe = 7900
    /\ classOut.branch = "Tier 2: Strategic Specialist"
    /\ classOut.fw = "Tier 2: Strategic Specialist"
    /\ classOut.schema = "Tier 2: Strategic Specialist"

\* the tier of the partition of [0,100] the claim states
PartitionTier(s) ==
    IF s >= 8000 THEN "Tier 1: Hegemon"
    ELSE IF s >= 5000 THEN "Tier 2: Strategic Specialist"
    ELSE IF s >= 3000 THEN "Tier 3: Adopter"
    ELSE "Tier 4: Consumer"

\* C4: the tier ranges partition [0,100]: for every score in [0,100], also a
\* non-integer one between two range ends, get_tier returns Hegemon from 80,
\* Strategic Specialist from 50 to below 80, Adopter from 30 to below 50 and
\* Consumer below 30.
C4_Partition ==
    (0 <= probe /\ probe <= 10000) =>
        /\ classOut.fw \in {"", PartitionTier(probe)}
        /\ classOut.schema \in {"", PartitionTier(probe)}

\* C21: a score below 0 or above 100 is classified as "Tier 4: Consumer" by
\* get_tier, framework and schemas variant; the call returns a tier and does
\* not fail.
C21_OutOfRangeIsConsumer ==
    (probe < 0 \/ probe > 10000) =>
        /\ classOut.fw \in {"", "Tier 4: Consumer"}
        /\ classOut.schema \in {"", "Tier 4: Consumer"}

C21_Witness ==
    /\ probe = 10050
    /\ classOut.fw = "Tier 4: Consumer"
    /\ classOut.schema = "Tier 4: Consumer"

----------------------------------------------------------------------------
(* Claims about a session *)

\* the last call was a score_layer call that returned an error message
Rejected(r) == r.kind \in {"error_layer", "error_score"}

\* C5: score_layer fails with an error message whenever layer_number is outside
\* 1..8 or the score is outside [0,100], and succeeds for every layer in 1..8
\* with a score in [0,100], bounds included: a call that succeeded had valid
\* arguments, and a call that failed names an argument that is out of range.
C5_FailsObservably ==
    /\ ret.kind = "ok" =>
          /\ ret.layer_number \in 1..8
          /\ 0 <= ret.score /\ ret.score <= 10000
    /\ ret.kind = "error_layer" => ret.got \notin 1..8
    /\ ret.kind = "error_score" => (ret.got < 0 \/ ret.got > 10000)

C5_Witness ==
    /\ has_ctx
    /\ ret = [kind |-> "error_score", got |-> 10001]
    /\ Scored(state) = {}
    /\ disk = <<>>

\* C6: a score_layer call that is rejected leaves the session state (country,
\* report_dir, every layer result) and all files on disk as they were.
C6_NoPartialState ==
    [][Rejected(ret') => (state' = state /\ disk' = disk)]_vars

C6_Witness ==
    /\ Rejected(ret)
    /\ state.layer_json[1] # <<>>
    /\ state.country = << <<"J", "p">> >>
    /\ \E d \in DOMAIN disk : disk[d].layers[1] = state.layer_json[1]

----------------------------------------------------------------------------
(* Claims about one store *)

\* the last element of a non-empty list
Last(ids) == ids[Len(ids)]

\* C7: after any sequence of save, save_research and delete_research, every
\* id in by_country or latest_by_country has its {id}.json file on disk.
C7_IndexedIdsHaveFiles ==
    /\ \A c \in DOMAIN index[1].by_country :
          \A i \in 1..Len(index[1].by_country[c]) :
              index[1].by_country[c][i] \in DOMAIN files
    /\ \A c \in DOMAIN index[1].latest_by_country :
          index[1].latest_by_country[c] \in DOMAIN files

\* latest_by_country agrees with by_country in the index idx
LatestIsLast(idx) ==
    /\ \A c \in DOMAIN idx.latest_by_country :
          /\ c \in DOMAIN idx.by_country
          /\ idx.by_country[c] # <<>>
          /\ idx.latest_by_country[c] = Last(idx.by_country[c])
    /\ \A c \in DOMAIN idx.by_country :
          idx.by_country[c] = <<>> => c \notin DOMAIN idx.latest_by_country

\* C8: after any sequence of save, save_research and delete_research, for
\* every country in latest_by_country the entry is the last element of
\* by_country[c], and a country whose list is empty has no entry; in the
\* store's index and in index.json.
C8_LatestIsLast ==
    /\ LatestIsLast(index[1])
    /\ indexFile # <<>> => LatestIsLast(indexFile[1])

C8_Witness ==
    /\ out.op = "delete_research"
    /\ out.result
    /\ \E c \in DOMAIN index[1].latest_by_country :
          /\ Len(index[1].by_country[c]) = 1
          /\ index[1].latest_by_country[c] # out.id
    /\ \E c \in DOMAIN index[1].by_country :
          /\ index[1].by_country[c] = <<>>
          /\ c \notin DOMAIN index[1].latest_by_country

\* C9: every saved run has a unique id: no two entries of runs share an id,
\* also when two runs of one country are saved within the same second.
C9_UniqueRunIds ==
    \A i, j \in 1..Len(index[1].runs) :
        i # j => index[1].runs[i].id # index[1].runs[j].id

\* p is a prefix of q
IsPrefix(p, q) == Len(p) <= Len(q) /\ SubSeq(q, 1, Len(p)) = p

\* C10 as stated: the run index is append-only, no store operation removes or
\* reorders a summary or an id that was appended.
C10_AppendOnly ==
    [][/\ IsPrefix(index[1].runs, index'[1].runs)
       /\ \A c \in DOMAIN index[1].by_country :
             /\ c \in DOMAIN index'[1].by_country
             /\ IsPrefix(index[1].by_country[c], index'[1].by_country[c])]_vars

\* the by_country list of country c, empty when the index has none
IdsOf(idx, c) == IF c \in DOMAIN idx.by_country THEN idx.by_country[c] ELSE <<>>

\* a save turned the index i into j: one summary and one id, both at the end
SaveStep(i, j, id) ==
    /\ j.runs = Append(i.runs, Last(j.runs))
    /\ Last(j.runs).id = id
    /\ \E c \in DOMAIN j.by_country :
          /\ DOMAIN j.by_country = DOMAIN i.by_country \cup {c}
          /\ j.by_country[c] = Append(IdsOf(i, c), id)
          /\ \A d \in DOMAIN i.by_country \ {c} : j.by_country[d] = i.by_country[d]

\* a delete turned the index i into j: the summaries of id are gone, the
\* others are left in their order
DeleteStep(i, j, id) ==
    LET other(r) == r.id # id
    IN /\ j.runs = SelectSeq(i.runs, other)
       /\ DOMAIN j.by_country = DOMAIN i.by_country
       /\ \A c \in DOMAIN i.by_country :
             \/ j.by_country[c] = i.by_country[c]
             \/ \E k \in 1..Len(i.by_country[c]) :
                   /\ i.by_country[c][k] = id
                   /\ j.by_country[c] = SubSeq(i.by_country[c], 1, k - 1)
                                        \o SubSeq(i.by_country[c], k + 1, Len(i.by_country[c]))

\* C10, amended: save and save_research are append-only, each adds exactly
\* one summary at the end of runs and the id at the end of by_country[country]
\* and leaves the earlier entries as they were; only delete_research(id)
\* removes entries: the summaries of that id, the other summaries keeping
\* their order.
C10_AppendOnlySaves ==
    [][\/ index'[1] = index[1]
       \/ /\ out'.op \in {"save", "save_research"}
          /\ SaveStep(index[1], index'[1], out'.id)
       \/ /\ out'.op = "delete_research"
          /\ out'.result
          /\ DeleteStep(index[1], index'[1], out'.id)]_vars

C10_Witness ==
    /\ out.op = "save"
    /\ Len(index[1].runs) = 3
    /\ Last(index[1].runs).id = out.id
    /\ index[1].runs[1].id # out.id
    /\ \E c \in DOMAIN index[1].by_country : Len(index[1].by_country[c]) = 2


----------------------------------------------------------------------------
(* Claims about the files of a session *)

\* the result the last score_layer call built, when it succeeded
LastResult == LayerResult(ret.layer_number, ret.score, ret.justification)

\* C12 as stated: a layer file that exists is never written again, the first
\* write wins.
C12_FirstWriteWins ==
    [][\A d \in DOMAIN disk : \A n \in Layers :
          disk[d].layers[n] # <<>> => disk'[d].layers[n] = disk[d].layers[n]]_vars

\* C12, amended: save_final_report never overwrites a layer file that exists,
\* it writes a layer file only when it is missing; a layer file that exists
\* changes only by a valid score_layer call for that layer, which overwrites
\* it with its own result, so the last write wins.
C12_LastWriteWins ==
    [][/\ \A d \in DOMAIN disk : \A n \in Layers :
             (disk[d].layers[n] # <<>> /\ disk'[d].layers[n] # disk[d].layers[n])
                => /\ ret'.kind = "ok"
                   /\ ret'.layer_number = n
       /\ (has_ctx /\ ret'.kind = "ok")
             => \E d \in DOMAIN disk' :
                   disk'[d].layers[ret'.layer_number]
                      = <<LayerResult(ret'.layer_number, ret'.score, ret'.justification)>>]_vars

C12_Witness ==
    /\ ret.kind = "saved"
    /\ state.country = << <<"S", " ", "K">> >>
    /\ state.report_dir = << <<"j", "p", "_", "0">> >>
    /\ disk[<<"j", "p", "_", "0">>].layers[3] = <<LayerResult(3, 10000, "j1")>>

\* the entries of the layers map of a report that have the key k
EntriesOf(report, k) == {i \in 1..Len(report.layers) : report.layers[i][1] = k}

\* C13: a report holds exactly one result per layer and it is the latest one:
\* the session state and the layer file hold the result of the most recent
\* valid score_layer call, and once the report is saved its entry for every
\* scored layer, the layer file and the session state agree.
C13_LatestResultPerLayer ==
    /\ (has_ctx /\ ret.kind = "ok")
          => /\ state.layer_json[ret.layer_number] = <<LastResult>>
             /\ \A d \in DOMAIN disk : disk[d].layers[ret.layer_number] = <<LastResult>>
    /\ \A d \in DOMAIN disk : \A n \in Layers :
          /\ disk[d].layers[n] = state.layer_json[n]
          /\ (disk[d].final_report # <<>> /\ state.layer_json[n] # <<>>)
                => LET report == disk[d].final_report[1]
                   IN /\ Cardinality(EntriesOf(report, P_LAYER_SHORT_NAMES[n])) = 1
                      /\ \A i \in EntriesOf(report, P_LAYER_SHORT_NAMES[n]) :
                            report.layers[i][2] = state.layer_json[n][1]

C13_Witness ==
    /\ ret.kind = "saved"
    /\ state.layer_json[2] = <<LayerResult(2, 10000, "j1")>>
    /\ \E d \in DOMAIN disk :
          /\ disk[d].layers[2] = state.layer_json[2]
          /\ disk[d].final_report[1].layers = << <<"chips", LayerResult(2, 10000, "j1")>> >>

\* the names a run directory can get at the time now: the slug of the country
\* argument, or of "unknown" when score_layer has no country at all
RunDirNames(now) ==
    {ReplaceSpaces(Lower(Strip(c))) \o <<"_">> \o TimeStamp(now) :
        c \in CountryArgs \cup {Unknown}}

\* C14: the run directory is chosen once: the first call that needs it fixes
\* slug(country)_timestamp in state["report_dir"], every later call reuses it
\* whatever its country argument and the time, and all files of the session
\* are under that one directory.
C14_RunDirChosenOnce ==
    [][/\ state.report_dir # <<>> => state'.report_dir = state.report_dir
       /\ (state.report_dir = <<>> /\ state'.report_dir # <<>>)
             => state'.report_dir[1] \in RunDirNames(clock)
       /\ DOMAIN disk' = {state'.report_dir[i] : i \in 1..Len(state'.report_dir)}]_vars

C14_Witness ==
    /\ clock = 1
    /\ state.report_dir = << <<"j", "p", "_", "0">> >>
    /\ DOMAIN disk = {<<"j", "p", "_", "0">>}
    /\ disk[<<"j", "p", "_", "0">>].layers[1] # <<>>
    /\ disk[<<"j", "p", "_", "0">>].final_report # <<>>
    /\ disk[<<"j", "p", "_", "0">>].final_report[1].country = <<"S", " ", "K">>
    /\ disk[<<"j", "p", "_", "0">>].final_report[1].generated_at = 1


----------------------------------------------------------------------------
(* Claims about the report *)

\* the place of the first record of collected that has the url u
FirstIndex(collected, u) ==
    CHOOSE i \in 1..Len(collected) :
        /\ collected[i].url = u
        /\ \A j \in 1..(i - 1) : collected[j].url # u

\* C15: the report's sources hold every distinct non-empty url of the
\* collected sources exactly once, in the order of first appearance (a, b, a
\* gives a, b), urls compared as exact strings, and sources.json holds the
\* first-seen records, in the same order and of the same length.
C15_FirstSeenSources ==
    \A d \in DOMAIN disk :
        disk[d].final_report # <<>> =>
            LET collected == state.collected_sources
                urls == disk[d].final_report[1].sources
                records == disk[d].sources[1]
            IN /\ {urls[i] : i \in 1..Len(urls)}
                     = {collected[i].url : i \in 1..Len(collected)} \ {""}
               /\ \A i, j \in 1..Len(urls) :
                     i < j => FirstIndex(collected, urls[i]) < FirstIndex(collected, urls[j])
               /\ Len(records) = Len(urls)
               /\ \A i \in 1..Len(urls) : records[i] = collected[FirstIndex(collected, urls[i])]
               /\ [i \in 1..Len(collected) |-> collected[i].url] = <<"a", "b", "a">>
                     => urls = <<"a", "b">>

C15_Witness ==
    /\ ret.kind = "saved"
    /\ state.collected_sources =
          <<[url |-> "a", title |-> "t2"], [url |-> "A", title |-> "t1"],
            [url |-> "a", title |-> "t1"]>>
    /\ \E d \in DOMAIN disk :
          /\ disk[d].final_report[1].sources = <<"a", "A">>
          /\ disk[d].sources[1] =
                <<[url |-> "a", title |-> "t2"], [url |-> "A", title |-> "t1"]>>

\* the layer number of a short name
LayerOf(short) == CHOOSE n \in Layers : P_LAYER_SHORT_NAMES[n] = short

\* C16: the layers map of the report is keyed by short name, in ascending
\* layer number whatever the order the layers were scored in, with an entry
\* for exactly the layers that have a result in the session.
C16_LayersInNumberOrder ==
    \A d \in DOMAIN disk :
        disk[d].final_report # <<>> =>
            LET layers == disk[d].final_report[1].layers
            IN /\ \A i \in 1..Len(layers) :
                     \E n \in Layers : layers[i][1] = P_LAYER_SHORT_NAMES[n]
               /\ {LayerOf(layers[i][1]) : i \in 1..Len(layers)} = Scored(state)
               /\ \A i, j \in 1..Len(layers) :
                     i < j => LayerOf(layers[i][1]) < LayerOf(layers[j][1])

C16_Witness ==
    /\ ret.kind = "saved"
    /\ Scored(state) = {2, 8}
    /\ \E d \in DOMAIN disk :
          /\ Len(disk[d].final_report[1].layers) = 2
          /\ disk[d].final_report[1].layers[1][1] = "chips"
          /\ disk[d].final_report[1].layers[2][1] = "adoption"


----------------------------------------------------------------------------
(* Claims about the queries of a store *)

SaveOps == {"save", "save_research"}

GeneratedAt(research) ==
    IF research.generated_at = <<>> THEN -1 ELSE research.generated_at[1]

\* the records are those of the summaries picked by f, one summary each
PicksRuns(records, runs, f) ==
    /\ \A i, j \in 1..Len(records) : i # j => f[i] # f[j]
    /\ \A i \in 1..Len(records) :
          /\ records[i].id = runs[f[i]].id
          /\ GeneratedAt(records[i]) = SortKey(runs[f[i]])
    /\ \A k \in 1..Len(runs) :
          (\A i \in 1..Len(records) : f[i] # k)
             => \A i \in 1..Len(records) : SortKey(runs[k]) <= GeneratedAt(records[i])

\* C17: list() without a country returns at most limit runs, the runs with
\* the greatest generation timestamps among the indexed runs, in descending
\* order of the timestamp.
C17_MostRecentRuns ==
    (out.op = "list" /\ out.country = <<>>)
       => LET records == out.result
              runs == index[1].runs
          IN /\ Len(records) = Min(out.limit, Len(runs))
             /\ \A i, j \in 1..Len(records) :
                   i < j => GeneratedAt(records[i]) >= GeneratedAt(records[j])
             /\ \E f \in [1..Len(records) -> 1..Len(runs)] : PicksRuns(records, runs, f)

\* the ids of the by_country list of a country
CountryIds(country) ==
    IF Lower(country) \in DOMAIN index[1].by_country
    THEN index[1].by_country[Lower(country)] ELSE <<>>

\* C18: list(country, limit) returns at most limit runs for every limit >= 0,
\* limit = 0 included, and they are the last limit ids of by_country[country]
\* in insertion order.
C18_LastLimitOfCountry ==
    (out.op = "list" /\ out.country # <<>> /\ out.limit >= 0)
       => LET ids == CountryIds(out.country)
              n == Min(out.limit, Len(ids))
          IN /\ Len(out.result) <= out.limit
             /\ [i \in 1..Len(out.result) |-> out.result[i].id]
                   = SubSeq(ids, Len(ids) - n + 1, Len(ids))

\* the countries that differ from country in letter case at most
SameFolded(country) == {c \in QueryCountries \cup StoreCountries : Lower(c) = Lower(country)}

\* C19: the country is case-folded for indexing and case-preserved for
\* display: the keys of by_country and latest_by_country are lower case and
\* every run is in the list of its folded country; list, has_research and
\* get_latest_for_country answer the same under any casing and find the runs
\* saved under another casing; the stored record and the summary keep the
\* country as it was supplied.
C19_CaseFolded ==
    /\ \A k \in DOMAIN index[1].by_country \cup DOMAIN index[1].latest_by_country :
          Lower(k) = k
    /\ \A i \in 1..Len(index[1].runs) :
          /\ Lower(index[1].runs[i].country) \in DOMAIN index[1].by_country
          /\ InList(index[1].by_country[Lower(index[1].runs[i].country)], index[1].runs[i].id)
          /\ Lower(index[1].runs[i].country) \in DOMAIN index[1].latest_by_country
    /\ out.op \in SaveOps
          => /\ index[1].runs[Len(index[1].runs)].country = out.research.country
             /\ GetResearch(files, out.id) # <<>>
             /\ GetResearch(files, out.id)[1].country = out.research.country
    /\ out.op = "has_research"
          => /\ \A c \in SameFolded(out.country) : HasResearch(index[1], c) = out.result
             /\ (\E i \in 1..Len(index[1].runs) :
                    Lower(index[1].runs[i].country) = Lower(out.country)) => out.result
    /\ out.op = "get_latest_for_country"
          => \A c \in SameFolded(out.country) :
                GetLatestForCountry(index[1], files, c) = out.result
    /\ (out.op = "list" /\ out.country # <<>>)
          => /\ \A c \in SameFolded(out.country) :
                   List(index[1], files, c, out.limit) = out.result
             /\ out.limit >= Len(index[1].runs)
                   => \A i \in 1..Len(index[1].runs) :
                         Lower(index[1].runs[i].country) = Lower(out.country)
                            => \E j \in 1..Len(out.result) :
                                  out.result[j].id = index[1].runs[i].id

C19_Witness ==
    /\ out.op = "list"
    /\ out.country = <<"J", "P">>
    /\ Len(out.result) = 2
    /\ out.result[1].country = <<"J", "p">>
    /\ out.result[2].country = <<"j", "p">>
    /\ DOMAIN index[1].by_country = {<<"j", "p">>}

\* the ids the index of the store names
IndexIds ==
    {index[1].runs[i].id : i \in 1..Len(index[1].runs)}
    \cup UNION {{index[1].by_country[c][i] : i \in 1..Len(index[1].by_country[c])} :
                  c \in DOMAIN index[1].by_country}
    \cup {index[1].latest_by_country[c] : c \in DOMAIN index[1].latest_by_country}

\* C20: get(id) reads {id}.json directly: without the file it returns None
\* and changes neither the index nor a file; with the file it returns the
\* record of that id, whether the index has an entry for the id or not.
C20_GetReadsFile ==
    [][(out'.op = "get" /\ out.op # "get")
          => /\ UNCHANGED <<files, indexFile, index>>
             /\ out'.id \notin DOMAIN files => out'.result = <<>>
             /\ out'.id \in DOMAIN files
                   => /\ out'.result # <<>>
                      /\ out'.result[1].id = out'.id
                      /\ AsDict(out'.result[1]) = files[out'.id]]_vars

C20_Witness ==
    /\ out.op = "get"
    /\ out.id \in DOMAIN files
    /\ out.id \notin IndexIds
    /\ out.result # <<>>
    /\ out.result[1].id = out.id

----------------------------------------------------------------------------
(* Claims about delete_research *)

\* C26: after delete_research(id) returned True the id is nowhere in the index
\* (not in runs, not in a by_country list, not a latest_by_country value) and
\* get(id) finds nothing; a delete_research(id) that returns False changes
\* neither the index nor a file.
C26_DeleteRemovesId ==
    /\ []((out.op = "delete_research" /\ out.result)
            => (out.id \notin IndexIds /\ GetResearch(files, out.id) = <<>>))
    /\ [][(out'.op = "delete_research" /\ ~out'.result)
            => UNCHANGED <<files, indexFile, index>>]_vars

----------------------------------------------------------------------------
(* Specification of two stores on one directory: whole saves, one after the other *)

MaxShared == 2

Stores == {1, 2}

\* the countries runs are saved of: "Jp", "S K"
SharedCountries == {<<"J", "p">>, <<"S", " ", "K">>}

\* ResearchStore(storage_dir) is constructed once more on the directory
OpenStore ==
    \E s \in Stores \ DOMAIN index :
        /\ s = Len(index) + 1
        /\ index' = Append(index, LoadIndex(indexFile))
        /\ UNCHANGED <<files, indexFile, out, clock, scoreVars, sessVars, procVars>>

\* save_research is called on one of the stores and returns
StoresSaveResearch ==
    \E s \in DOMAIN index, country \in SharedCountries :
        /\ Len(index[s].runs) < MaxShared
        /\ Cardinality(DOMAIN files) < MaxShared
        /\ SaveResearch(s, country, 2024, 6775, "Tier 2: Strategic Specialist")
        /\ UNCHANGED <<clock, scoreVars, sessVars, procVars>>

\* save_result is called in the process of one of the stores and returns
StoresSaveResult ==
    \E s \in DOMAIN index, country \in SharedCountries :
        /\ Len(index[s].runs) < MaxShared
        /\ Cardinality(DOMAIN files) < MaxShared
        /\ SaveResult(s, AssessmentResult(country, clock))
        /\ UNCHANGED <<clock, scoreVars, sessVars, procVars>>

NextStores == OpenStore \/ StoresSaveResearch \/ StoresSaveResult \/ Tick

SpecStores == InitStore /\ [][NextStores]_vars

----------------------------------------------------------------------------
(* Specification of two writers on one directory: their saves interleave *)

\* the countries a writer saves runs of
WriterCountries == {<<"J", "p">>, <<"S", " ", "K">>}

\* the store of the first writer is open on the empty directory
InitWriters ==
    /\ ScoreIdle
    /\ SessIdle
    /\ StoreIdle
    /\ clock = 0
    /\ pc = [s \in {1} |-> "idle"]
    /\ local = [s \in {1} |-> <<>>]
    /\ queue = <<>>
    /\ sent = <<>>

\* the second writer starts: get_store() constructs its ResearchStore
WriterOpen ==
    /\ DOMAIN index = {1}
    /\ index' = Append(index, LoadIndex(indexFile))
    /\ pc' = Append(pc, "idle")
    /\ local' = Append(local, <<>>)
    /\ UNCHANGED <<files, indexFile, out, queue, sent, clock, scoreVars, sessVars>>

\* writer s calls save_result: the record is built and save writes {id}.json
WriterSaveFile ==
    \E s \in DOMAIN index, country \in WriterCountries :
        LET research == StoredOf(AssessmentResult(country, clock), clock)
        IN /\ pc[s] = "idle"
           /\ Len(index[s].runs) < MaxShared
           /\ Cardinality(DOMAIN files) < MaxShared
           /\ SaveFile(s, research)
           /\ pc' = [pc EXCEPT ![s] = "index"]
           /\ local' = [local EXCEPT ![s] = <<research>>]
           /\ UNCHANGED <<indexFile, index, out, queue, sent, clock, scoreVars, sessVars>>

\* save of writer s goes on: the index is updated and written, save returns
WriterSaveIndex ==
    \E s \in DOMAIN index :
        /\ pc[s] = "index"
        /\ SaveIndex(s, local[s][1])
        /\ pc' = [pc EXCEPT ![s] = "idle"]
        /\ local' = [local EXCEPT ![s] = <<>>]
        /\ UNCHANGED <<files, queue, sent, clock, scoreVars, sessVars>>

\* a second passes
WriterTick ==
    /\ clock < MaxClock
    /\ clock' = clock + 1
    /\ UNCHANGED <<sessVars, scoreVars, storeVars, pc, local, queue, sent>>

NextWriters == WriterOpen \/ WriterSaveFile \/ WriterSaveIndex \/ WriterTick

SpecWriters == InitWriters /\ [][NextWriters]_vars

----------------------------------------------------------------------------
(* Claims about two stores on one directory *)

\* the ids an index names, in runs, in a by_country list or as a latest run
IdsNamed(idx) ==
    {idx.runs[i].id : i \in 1..Len(idx.runs)}
    \cup UNION {{idx.by_country[c][i] : i \in 1..Len(idx.by_country[c])} :
                  c \in DOMAIN idx.by_country}
    \cup {idx.latest_by_country[c] : c \in DOMAIN idx.latest_by_country}

\* the ids index.json lists in runs
IdsListed == {LoadIndex(indexFile).runs[i].id : i \in 1..Len(LoadIndex(indexFile).runs)}

\* C23: saves of two stores on one directory that do not overlap in time all
\* end up in index.json: every run that was saved, and so has its file, is
\* listed in the runs of index.json.
C23_SequentialSavesListed ==
    \A id \in DOMAIN files : id \in IdsListed

\* C22: a writer's index write replaces index.json by the writer's own copy
\* of the index plus its run, so what the other writer added to index.json in
\* the meantime is dropped: an id index.json named and the writer's copy did
\* not is named nowhere in index.json afterwards, while its file stays.
C22_IndexWriteDropsOthers ==
    [][\A s \in DOMAIN pc :
          (pc[s] = "index" /\ pc'[s] = "idle")
             => /\ indexFile' = <<index'[s]>>
                /\ files' = files
                /\ \A id \in IdsNamed(LoadIndex(indexFile)) \ IdsNamed(index[s]) :
                      id # local[s][1].id
                         => id \notin IdsNamed(LoadIndex(indexFile'))]_vars

\* the run of "Jp" saved from second 0 on and the run of "S K" saved from
\* second 1 on: both files are there, nobody is saving, and index.json names
\* the run of "Jp" only, so the save of "Jp" ended after that of "S K" began
C22_Witness ==
    /\ DOMAIN pc = {1, 2}
    /\ \A s \in DOMAIN pc : pc[s] = "idle"
    /\ DOMAIN files = {SaveResultId(<<"J", "p">>, 0), SaveResultId(<<"S", " ", "K">>, 1)}
    /\ IdsNamed(LoadIndex(indexFile)) = {SaveResultId(<<"J", "p">>, 0)}

----------------------------------------------------------------------------
(* Specification of two score_layer calls of one session that run in parallel *)

Threads == {1, 2}

\* the layers the two calls score
ParLayerArgs == {1, 2}

\* a slip: mkdir without exist_ok
EXIST_OK_Off == FALSE

\* report_dir.mkdir(parents=True, exist_ok=True)
EXIST_OK == TRUE

\* Path.mkdir: FileExistsError when the directory is there and exist_ok is off
Mkdir(dk, path, exist_ok) ==
    [ok |-> exist_ok \/ path \notin DOMAIN dk,
     disk |-> IF path \in DOMAIN dk THEN dk ELSE (path :> EmptyDir) @@ dk]

InitParallel ==
    /\ ScoreIdle
    /\ StoreIdle
    /\ state = EmptyState(<<>>)
    /\ disk = <<>>
    /\ clock = 0
    /\ ret = [kind |-> "none"]
    /\ has_ctx = TRUE
    /\ pc = [t \in Threads |-> "idle"]
    /\ local = [t \in Threads |-> <<>>]
    /\ queue = <<>>
    /\ sent = <<>>

\* score_layer is called in thread t with valid arguments: the country and
\* the layer result go into the session state
ParRecord ==
    \E t \in Threads, layer_number \in ParLayerArgs, country \in CountryArgs :
        LET st1 == IF country # <<>> THEN [state EXCEPT !.country = <<country>>]
                   ELSE state
            layer_result == LayerResult(layer_number, 5000, "j1")
        IN /\ pc[t] = "idle"
           /\ ~LayerNumberInvalid(layer_number)
           /\ ~ScoreInvalid(5000)
           /\ state' = [st1 EXCEPT !.layer_json[layer_number] = <<layer_result>>]
           /\ local' = [local EXCEPT ![t] =
                           [layer_number |-> layer_number, country |-> country,
                            layer_result |-> layer_result, existing |-> <<>>,
                            resolved_country |-> <<>>, report_dir |-> <<>>]]
           /\ pc' = [pc EXCEPT ![t] = "get"]
           /\ UNCHANGED <<disk, ret, has_ctx, queue, sent, clock, scoreVars, storeVars>>

\* _write_layer_json resolves the country, _get_or_create_report_dir reads
\* state.get("report_dir")
ParGet ==
    \E t \in Threads :
        LET resolved_country ==
                IF local[t].country # <<>> THEN local[t].country
                ELSE IF state.country # <<>> THEN state.country[1] ELSE Unknown
            existing == state.report_dir
        IN /\ pc[t] = "get"
           /\ local' = [local EXCEPT ![t].existing = existing,
                                      ![t].resolved_country = resolved_country,
                                      ![t].report_dir = existing]
           /\ pc' = [pc EXCEPT ![t] = IF existing # <<>> THEN "mkdir" ELSE "make"]
           /\ UNCHANGED <<state, disk, ret, has_ctx, queue, sent, clock, scoreVars, storeVars>>

\* no path was cached: the path is made of the slug and the time and cached
ParMake ==
    \E t \in Threads :
        LET slug == ReplaceSpaces(Lower(Strip(local[t].resolved_country)))
            report_dir == slug \o <<"_">> \o TimeStamp(clock)
        IN /\ pc[t] = "make"
           /\ state' = [state EXCEPT !.report_dir = <<report_dir>>]
           /\ local' = [local EXCEPT ![t].report_dir = <<report_dir>>]
           /\ pc' = [pc EXCEPT ![t] = "mkdir"]
           /\ UNCHANGED <<disk, ret, has_ctx, queue, sent, clock, scoreVars, storeVars>>

\* the directory and its layers/ are created when absent
ParMkdir ==
    \E t \in Threads :
        LET made == Mkdir(disk, local[t].report_dir[1], EXIST_OK)
        IN /\ pc[t] = "mkdir"
           /\ disk' = IF made.ok THEN made.disk ELSE disk
           /\ pc' = [pc EXCEPT ![t] = IF made.ok THEN "write" ELSE "failed"]
           /\ UNCHANGED <<state, local, ret, has_ctx, queue, sent, clock, scoreVars, storeVars>>

\* the layer file is written and score_layer returns
ParWrite ==
    \E t \in Threads :
        /\ pc[t] = "write"
        /\ disk' = [disk EXCEPT ![local[t].report_dir[1]].layers[local[t].layer_number] =
                                    <<local[t].layer_result>>]
        /\ ret' = [kind |-> "ok", layer_number |-> local[t].layer_number, score |-> 5000,
                   weight |-> LAYER_WEIGHTS[local[t].layer_number],
                   weighted_contribution |->
                       Round2(5000 * LAYER_WEIGHTS[local[t].layer_number]),
                   justification |-> "j1"]
        /\ pc' = [pc EXCEPT ![t] = "done"]
        /\ UNCHANGED <<state, local, has_ctx, queue, sent, clock, scoreVars, storeVars>>

\* a second passes
ParTick ==
    /\ clock < MaxClock
    /\ clock' = clock + 1
    /\ UNCHANGED <<sessVars, scoreVars, storeVars, pc, local, queue, sent>>

NextParallel == ParRecord \/ ParGet \/ ParMake \/ ParMkdir \/ ParWrite \/ ParTick

SpecParallel == InitParallel /\ [][NextParallel]_vars

----------------------------------------------------------------------------
(* Claims about parallel score_layer calls *)

\* the run directory thread t works in, once it knows it
DirOf(t) == IF local[t] = <<>> THEN <<>> ELSE local[t].report_dir

\* C24: with two score_layer calls of one session in parallel the creation of
\* the run directory never fails, each call writes its layer file into the
\* directory it worked out, and the two calls work out different directories
\* only when both looked for the cached path before either had cached one.
C24_ParallelRunDirs ==
    /\ \A t \in Threads : pc[t] # "failed"
    /\ \A t \in Threads :
          pc[t] = "done"
             => /\ DirOf(t)[1] \in DOMAIN disk
                /\ disk[DirOf(t)[1]].layers[local[t].layer_number] # <<>>
    /\ \A t, u \in Threads :
          (DirOf(t) # <<>> /\ DirOf(u) # <<>> /\ DirOf(t) # DirOf(u))
             => (local[t].existing = <<>> /\ local[u].existing = <<>>)

\* both calls are done and the layer files of the run are in two directories
C24_Witness ==
    /\ \A t \in Threads : pc[t] = "done"
    /\ local[1].layer_number = 1
    /\ local[2].layer_number = 2
    /\ DirOf(1) # DirOf(2)
    /\ DOMAIN disk = {DirOf(1)[1], DirOf(2)[1]}
    /\ disk[DirOf(1)[1]].layers[1] # <<>> /\ disk[DirOf(1)[1]].layers[2] = <<>>
    /\ disk[DirOf(2)[1]].layers[2] # <<>> /\ disk[DirOf(2)[1]].layers[1] = <<>>
    /\ local[1].country = local[2].country

----------------------------------------------------------------------------
(* agent.py: NAAFAgent.research_layer and NAAFAgent.assess_country *)

\* NAAF_LAYERS[n].max_points, in points
MAX_POINTS == <<20, 15, 15, 10, 10, 10, 10, 10>>

\* len(NAAF_LAYERS[n].metrics)
METRIC_COUNT == <<4, 2, 2, 1, 2, 1, 2, 1>>

\* what a search gave for one metric: the primary search returns results, a
\* "No results found ..." text or a "... search failed: ..." text; Exa returns
\* results, "No results found ...", "Exa search failed: ..." or raises
PrimaryOutcomes == {"results", "none", "failed"}

ExaOutcomes == {"results", "none", "failed", "raised"}

\* "No results" not in exa_result and "failed" not in exa_result.lower(),
\* in a try whose except passes
ExaKept(exa) == exa = "results"

\* the findings list research_layer builds: one entry per metric for the
\* primary search, one more when the Exa result is kept
RECURSIVE FindingsFrom(_, _)
FindingsFrom(outcomes, i) ==
    IF i > Len(outcomes) THEN <<>>
    ELSE <<outcomes[i].primary>>
         \o (IF ExaKept(outcomes[i].exa) THEN <<"results">> ELSE <<>>)
         \o FindingsFrom(outcomes, i + 1)

\* "No results" not in f
Covers(f) == f # "none"

\* round(x, 2) of the quotient num / den of hundredths
RoundDiv(num, den) == (2 * num + den) \div (2 * den)

\* NAAFAgent.research_layer for a layer of NAAF_LAYERS: the score is
\* max_points * data_coverage * 0.7, in hundredths
ResearchLayer(layer_number, outcomes) ==
    LET findings == FindingsFrom(outcomes, 1)
        covered == Len(SelectSeq(findings, Covers))
        metrics == Max(METRIC_COUNT[layer_number], 1)
    IN [layer_number |-> layer_number,
        score |-> RoundDiv(MAX_POINTS[layer_number] * 100 * covered * 7, metrics * 10),
        max_score |-> MAX_POINTS[layer_number] * 100,
        status |-> "complete"]

\* sum(r.score for r in layer_results.values())
RECURSIVE SumScores(_, _)
SumScores(layer_results, i) ==
    IF i > Len(layer_results) THEN 0
    ELSE layer_results[i].score + SumScores(layer_results, i + 1)

\* a slip: the loop over the layers takes every other layer
NextLayerNumSkip(layer_num) == layer_num + 2

\* for layer_num in range(1, 9): the layer after layer_num
NextLayerNum(layer_num) == layer_num + 1

\* emit(event, data): the progress callback is called
Emit(q, events) == q \o events

\* the NAAFAssessmentResult assess_country returns
AssessResult(country, layer_results, news_articles, now) ==
    [country |-> country, year |-> 2024,
     overall_score |-> SumScores(layer_results, 1),
     tier |-> FwGetTier(SumScores(layer_results, 1)),
     layer_results |-> layer_results,
     sources |-> <<>>, news_articles |-> news_articles, generated_at |-> <<now>>,
     research_duration_seconds |-> 0, raw_response |-> ""]

\* assess_country begins: emit("start", ...)
AssessStart ==
    /\ pc.task = "start"
    /\ queue' = Emit(queue, <<[event |-> "start", country |-> local.task.country]>>)
    /\ pc' = [pc EXCEPT !.task = "layer_start"]
    /\ UNCHANGED <<local, sent, clock, scoreVars, sessVars, storeVars>>

\* the loop over the layers: emit("layer_start", ...)
AssessLayerStart ==
    /\ pc.task = "layer_start"
    /\ queue' = Emit(queue, <<[event |-> "layer_start",
                               layer_number |-> local.task.layer_num]>>)
    /\ pc' = [pc EXCEPT !.task = "research"]
    /\ UNCHANGED <<local, sent, clock, scoreVars, sessVars, storeVars>>

\* research_layer returns for the searches' outcomes, the result is kept and
\* emit("layer_complete", ...) is called
AssessLayerComplete(outcomes) ==
    LET layer_num == local.task.layer_num
        result == ResearchLayer(layer_num, outcomes)
    IN /\ pc.task = "research"
       /\ queue' = Emit(queue, <<[event |-> "layer_complete", layer_number |-> layer_num,
                                  score |-> result.score, max_score |-> result.max_score]>>)
       /\ local' = [local EXCEPT !.task.layer_results = Append(@, result),
                                  !.task.layer_num = NextLayerNum(layer_num)]
       /\ pc' = [pc EXCEPT !.task = IF NextLayerNum(layer_num) < 9 THEN "layer_start"
                                     ELSE "news"]
       /\ UNCHANGED <<sent, clock, scoreVars, sessVars, storeVars>>

\* the live news, when the configuration includes them: news_start, then
\* news_error when get_live_news raised, then news_complete
AssessNews ==
    \E fetched \in BOOLEAN :
        LET news_articles == IF fetched THEN <<"raw">> ELSE <<>>
        IN /\ pc.task = "news"
           /\ IF local.task.include_news
              THEN /\ queue' = Emit(queue,
                          <<[event |-> "news_start"]>>
                          \o (IF fetched THEN <<>> ELSE <<[event |-> "news_error"]>>)
                          \o <<[event |-> "news_complete", count |-> Len(news_articles)]>>)
                   /\ local' = [local EXCEPT !.task.news_articles = news_articles]
              ELSE /\ fetched
                   /\ UNCHANGED <<queue, local>>
           /\ pc' = [pc EXCEPT !.task = "finish"]
           /\ UNCHANGED <<sent, clock, scoreVars, sessVars, storeVars>>

\* the overall score and the tier are worked out, emit("complete", ...) is
\* called and assess_country returns the result
AssessFinish ==
    LET result == AssessResult(local.task.country, local.task.layer_results,
                               local.task.news_articles, clock)
    IN /\ pc.task = "finish"
       /\ queue' = Emit(queue, <<[event |-> "complete", country |-> result.country,
                                  overall_score |-> result.overall_score,
                                  tier |-> result.tier]>>)
       /\ local' = [local EXCEPT !.task.result = <<result>>]
       /\ pc' = [pc EXCEPT !.task = "done"]
       /\ UNCHANGED <<sent, clock, scoreVars, sessVars, storeVars>>

\* the local variables of assess_country when it is called
TaskLocals(country, include_news) ==
    [country |-> country, include_news |-> include_news, layer_num |-> 1,
     layer_results |-> <<>>, news_articles |-> <<>>, result |-> <<>>]

----------------------------------------------------------------------------
(* Specification of one assessment: assess_country with a progress callback *)

\* the outcomes of the searches of one metric that are tried
OutcomePairs ==
    {[primary |-> "results", exa |-> "results"],
     [primary |-> "results", exa |-> "none"],
     [primary |-> "failed", exa |-> "raised"],
     [primary |-> "none", exa |-> "failed"]}

\* the outcomes of the searches of a layer: the same for each of its metrics
LayerOutcomes(layer_number) ==
    {[i \in 1..METRIC_COUNT[layer_number] |-> o] : o \in OutcomePairs}

InitAssess ==
    /\ ScoreIdle
    /\ SessIdle
    /\ StoreIdle
    /\ clock = 0
    /\ pc = [p \in {"task"} |-> "start"]
    /\ \E include_news \in BOOLEAN :
          local = [p \in {"task"} |-> TaskLocals(<<"J", "p">>, include_news)]
    /\ queue = <<>>
    /\ sent = <<>>

\* research_layer returns for one of the outcomes of the searches
AssessResearch ==
    /\ pc.task = "research"
    /\ \E outcomes \in LayerOutcomes(local.task.layer_num) : AssessLayerComplete(outcomes)

NextAssess ==
    AssessStart \/ AssessLayerStart \/ AssessResearch \/ AssessNews \/ AssessFinish

SpecAssess == InitAssess /\ [][NextAssess]_vars

----------------------------------------------------------------------------
(* api/app.py: generate_sse_events, the SSE stream of one assessment *)

\* the outcomes of the searches of a layer in a stream: results from the
\* primary search, nothing from Exa
StreamOutcomes(layer_number) ==
    {[i \in 1..METRIC_COUNT[layer_number] |-> [primary |-> "results", exa |-> "none"]]}

\* the country of the request: "Jp"
StreamCountries == {<<"J", "p">>}

\* a slip: run_id keeps the value of the start event
CompleteRunIdStart(start_id, saved_id) == start_id

\* run_id = agent.save_result(result): the id the complete event carries
CompleteRunId(start_id, saved_id) == saved_id

\* a slip: the queue is not drained after the task has finished
DrainEventsNone(q) == <<>>

\* while not events_queue.empty(): the events the drain loop yields
DrainEvents(q) == q

\* layer_scores after an event was yielded
TrackLayerScores(layer_scores, e) ==
    IF e.event = "layer_complete"
    THEN [layer_scores EXCEPT ![e.layer_number] =
             <<[score |-> e.score, max_score |-> e.max_score, status |-> "complete"]>>]
    ELSE layer_scores

\* the request has come in, nothing is yielded yet
InitStream ==
    /\ ScoreIdle
    /\ SessIdle
    /\ StoreIdle
    /\ clock = 0
    /\ pc = [gen |-> "begin", task |-> "unborn"]
    /\ \E country \in StreamCountries, include_news \in BOOLEAN :
          local = [gen |-> [country |-> country, run_id |-> <<>>,
                            layer_scores |-> [n \in Layers |-> <<>>], result |-> <<>>],
                   task |-> TaskLocals(country, include_news)]
    /\ queue = <<>>
    /\ sent = <<>>

\* run_id is made of the country and the time, the start event is yielded
GenStart ==
    LET run_id == SaveResultId(local.gen.country, clock)
    IN /\ pc.gen = "begin"
       /\ sent' = Append(sent, [event |-> "start", run_id |-> run_id,
                                country |-> local.gen.country])
       /\ local' = [local EXCEPT !.gen.run_id = <<run_id>>]
       /\ pc' = [pc EXCEPT !.gen = "create"]
       /\ UNCHANGED <<queue, clock, scoreVars, sessVars, storeVars>>

\* the agent and the queue are created and the assessment task is started
GenCreate ==
    /\ pc.gen = "create"
    /\ pc' = [pc EXCEPT !.gen = "poll", !.task = "start"]
    /\ UNCHANGED <<local, queue, sent, clock, scoreVars, sessVars, storeVars>>

\* create_naaf_agent raises: the error event is yielded
GenCreateRaises ==
    /\ pc.gen = "create"
    /\ sent' = Append(sent, [event |-> "error"])
    /\ pc' = [pc EXCEPT !.gen = "failed"]
    /\ UNCHANGED <<local, queue, clock, scoreVars, sessVars, storeVars>>

\* while not assessment_task.done(): the task is not done, the generator
\* waits in wait_for(events_queue.get(), timeout=0.5)
GenWait ==
    /\ pc.gen = "poll"
    /\ pc.task \notin {"done", "raised"}
    /\ pc' = [pc EXCEPT !.gen = "get"]
    /\ UNCHANGED <<local, queue, sent, clock, scoreVars, sessVars, storeVars>>

\* the loop is left: the generator finds the task done when it tests the
\* loop condition, after a yield or after wait_for timed out on the empty
\* queue (a timeout while the task is not done changes nothing)
LoopLeft ==
    /\ pc.gen = "poll" \/ (pc.gen = "get" /\ queue = <<>>)
    /\ pc.task \in {"done", "raised"}

\* wait_for(events_queue.get(), timeout=0.5) returns an event: it is yielded
GenGet ==
    /\ pc.gen = "get"
    /\ queue # <<>>
    /\ sent' = Append(sent, Head(queue))
    /\ queue' = Tail(queue)
    /\ local' = [local EXCEPT !.gen.layer_scores = TrackLayerScores(@, Head(queue))]
    /\ pc' = [pc EXCEPT !.gen = "poll"]
    /\ UNCHANGED <<clock, scoreVars, sessVars, storeVars>>

\* result = await assessment_task, of a task that returned
GenAwait ==
    /\ LoopLeft
    /\ pc.task = "done"
    /\ local' = [local EXCEPT !.gen.result = local.task.result]
    /\ pc' = [pc EXCEPT !.gen = "drain"]
    /\ UNCHANGED <<queue, sent, clock, scoreVars, sessVars, storeVars>>

\* result = await assessment_task, of a task that raised: the error event
GenAwaitRaises ==
    /\ LoopLeft
    /\ pc.task = "raised"
    /\ sent' = Append(sent, [event |-> "error"])
    /\ pc' = [pc EXCEPT !.gen = "failed"]
    /\ UNCHANGED <<local, queue, clock, scoreVars, sessVars, storeVars>>

\* the events still in the queue are yielded
GenDrain ==
    LET drained == DrainEvents(queue)
    IN /\ pc.gen = "drain"
       /\ sent' = sent \o drained
       /\ queue' = SubSeq(queue, Len(drained) + 1, Len(queue))
       /\ pc' = [pc EXCEPT !.gen = "save"]
       /\ UNCHANGED <<local, clock, scoreVars, sessVars, storeVars>>

\* run_id = agent.save_result(result)
GenSave ==
    /\ pc.gen = "save"
    /\ SaveResult(1, local.gen.result[1])
    /\ local' = [local EXCEPT !.gen.run_id =
                     <<CompleteRunId(local.gen.run_id[1],
                                     SaveResultId(local.gen.result[1].country, clock))>>]
    /\ pc' = [pc EXCEPT !.gen = "complete"]
    /\ UNCHANGED <<queue, sent, clock, scoreVars, sessVars>>

\* agent.save_result raises before it has written: the error event
GenSaveRaises ==
    /\ pc.gen = "save"
    /\ sent' = Append(sent, [event |-> "error"])
    /\ pc' = [pc EXCEPT !.gen = "failed"]
    /\ UNCHANGED <<local, queue, clock, scoreVars, sessVars, storeVars>>

\* the complete event with run_id is yielded and the stream ends
GenComplete ==
    /\ pc.gen = "complete"
    /\ sent' = Append(sent, [event |-> "complete", run_id |-> local.gen.run_id[1],
                             country |-> local.gen.result[1].country,
                             overall_score |-> local.gen.result[1].overall_score,
                             tier |-> local.gen.result[1].tier])
    /\ pc' = [pc EXCEPT !.gen = "end"]
    /\ UNCHANGED <<local, queue, clock, scoreVars, sessVars, storeVars>>

\* research_layer returns in the task of the stream
StreamResearch ==
    /\ pc.task = "research"
    /\ \E outcomes \in StreamOutcomes(local.task.layer_num) : AssessLayerComplete(outcomes)

\* the assessment raises
TaskRaises ==
    /\ pc.task \in {"research", "news"}
    /\ pc' = [pc EXCEPT !.task = "raised"]
    /\ UNCHANGED <<local, queue, sent, clock, scoreVars, sessVars, storeVars>>

\* a second passes
StreamTick ==
    /\ clock < MaxClock
    /\ clock' = clock + 1
    /\ UNCHANGED <<sessVars, scoreVars, storeVars, pc, local, queue, sent>>

NextStream ==
    \/ GenStart \/ GenCreate \/ GenCreateRaises \/ GenWait \/ GenGet
    \/ GenAwait \/ GenAwaitRaises \/ GenDrain \/ GenSave \/ GenSaveRaises \/ GenComplete
    \/ AssessStart \/ AssessLayerStart \/ StreamResearch \/ AssessNews \/ AssessFinish
    \/ TaskRaises \/ StreamTick

SpecStream == InitStream /\ [][NextStream]_vars

----------------------------------------------------------------------------
(* Claims about one assessment *)

\* C25: whatever the searches give, every layer score of assess_country lies
\* in [0, max_score] of its layer, the overall score lies in [0,100], and the
\* tier of the result is the tier whose range contains the overall score.
C25_ScoresInRange ==
    /\ \A i \in 1..Len(local.task.layer_results) :
          /\ 0 <= local.task.layer_results[i].score
          /\ local.task.layer_results[i].score <= local.task.layer_results[i].max_score
    /\ local.task.result # <<>>
          => /\ 0 <= local.task.result[1].overall_score
             /\ local.task.result[1].overall_score <= 10000
             /\ local.task.result[1].tier = PartitionTier(local.task.result[1].overall_score)

\* the event the fixed order has at place i of the first seventeen
OrderedEvent(i) ==
    IF i = 1 THEN "start" ELSE IF i % 2 = 0 THEN "layer_start" ELSE "layer_complete"

\* C28: the progress events of assess_country come in a fixed order: start
\* first and only there; then layer_start(n), layer_complete(n) for n = 1..8
\* in ascending order, each layer_complete right after its layer_start; and
\* complete last, after all eight layer_complete events, when the assessment
\* is over.
C28_EventOrder ==
    /\ \A i \in 1..Min(Len(queue), 17) :
          /\ queue[i].event = OrderedEvent(i)
          /\ i > 1 => queue[i].layer_number = i \div 2
    /\ \A i \in 1..Len(queue) :
          /\ queue[i].event \in {"start", "layer_start", "layer_complete"} => i <= 17
          /\ queue[i].event = "complete"
                => (i = Len(queue) /\ i > 17 /\ pc.task = "done")
    /\ pc.task = "done" => queue[Len(queue)].event = "complete"

C28_Witness ==
    /\ pc.task = "done"
    /\ Len(queue) = 21
    /\ queue[16] = [event |-> "layer_start", layer_number |-> 8]
    /\ queue[17].event = "layer_complete"
    /\ queue[17].layer_number = 8
    /\ queue[19].event = "news_error"
    /\ queue[21].event = "complete"

----------------------------------------------------------------------------
(* Claims about the SSE stream *)

\* the complete event of the generator, the one that carries run_id
IsFinal(e) == e.event = "complete" /\ "run_id" \in DOMAIN e

\* the places of sent that hold a complete event with run_id
Finals == {i \in 1..Len(sent) : IsFinal(sent[i])}

\* C27: a complete event with run_id is yielded only after save_result has
\* stored the run, so get(run_id) finds the run under that id; when the
\* assessment, the save or the making of the agent raises, the stream ends
\* with an error event and has no complete event with run_id.
C27_CompleteAfterSave ==
    /\ \A i \in Finals :
          /\ GetResearch(files, sent[i].run_id) # <<>>
          /\ GetResearch(files, sent[i].run_id)[1].id = sent[i].run_id
          /\ GetResearch(files, sent[i].run_id)[1].overall_score = sent[i].overall_score
          /\ i = Len(sent)
          /\ pc.gen = "end"
    /\ pc.task = "raised" => Finals = {}
    /\ pc.gen = "failed" => (Finals = {} /\ sent[Len(sent)].event = "error")
    /\ pc.gen = "end" => Finals # {}

\* the stream that began in second 0 and saved its run in second 1
C27_Witness ==
    /\ pc.gen = "end"
    /\ Finals = {Len(sent)}
    /\ sent[Len(sent)].run_id = SaveResultId(<<"J", "p">>, 1)
    /\ sent[1].run_id = SaveResultId(<<"J", "p">>, 0)
    /\ DOMAIN files = {SaveResultId(<<"J", "p">>, 1)}

\* q is p with first gone
Drops(p, first, q) == p = first \o q

\* C29: every event the callback puts on the queue is yielded once and in
\* the order of the puts before the complete event with run_id: a put adds at
\* the tail and yields nothing, the generator takes from the head and yields
\* what it takes in that order, nothing else changes the queue, what the
\* generator yields besides is its own start, complete and error event, and
\* the complete event with run_id is yielded when the task is done and the
\* queue is empty.
C29_EventsInOrder ==
    [][/\ queue' # queue
          => \/ /\ Len(queue') > Len(queue)
                /\ SubSeq(queue', 1, Len(queue)) = queue
                /\ sent' = sent
             \/ \E k \in 1..Len(queue) :
                   /\ Drops(queue, SubSeq(queue, 1, k), queue')
                   /\ sent' = sent \o SubSeq(queue, 1, k)
       /\ (queue' = queue /\ sent' # sent)
          => /\ Len(sent') = Len(sent) + 1
             /\ SubSeq(sent', 1, Len(sent)) = sent
             /\ \/ sent'[Len(sent')].event = "error"
                \/ IsFinal(sent'[Len(sent')])
                \/ (sent = <<>> /\ sent'[1].event = "start" /\ "run_id" \in DOMAIN sent'[1])
             /\ IsFinal(sent'[Len(sent')]) => (queue = <<>> /\ pc.task = "done")]_vars

\* the whole stream of an assessment with news whose fetch failed: the
\* generator's start, the twenty-one events of the task, the complete event
C29_Witness ==
    /\ pc.gen = "end"
    /\ Len(sent) = 23
    /\ sent[2] = [event |-> "start", country |-> <<"J", "p">>]
    /\ sent[18].event = "layer_complete"
    /\ sent[20].event = "news_error"
    /\ sent[22].event = "complete"
    /\ ~IsFinal(sent[22])
    /\ IsFinal(sent[23])
    /\ local.gen.layer_scores[8] # <<>>

\* C30: the run_id of the start event is the id the run is saved under and
\* the id the complete event carries.
C30_SameRunId ==
    \A i \in Finals :
        /\ sent[i].run_id = sent[1].run_id
        /\ sent[1].run_id \in DOMAIN files

====
